---- MODULE Spec2Model ----
(***************************************************************************)
(* A model of the h3-go binding (src/h3.go): the Go wrapper functions      *)
(* around the H3 engine, with the engine's index arithmetic modelled on    *)
(* the 64-bit index layout.                                                *)
(*                                                                         *)
(* An index is the record of the bit fields of one 64-bit word:            *)
(*   hi (bit 63), mode (4 bits), rsv (3 bits), res (4 bits),               *)
(*   bc (7 bits), digits (fifteen 3-bit digits).                           *)
(* A Go slice result is a record [panicked, isNil, out, err].              *)
(***************************************************************************)
EXTENDS Integers, Sequences, FiniteSets, TLC

(***************************************************************************)
(* Bounds of the model.                                                    *)
(***************************************************************************)
\* coarsest cells whose descendants are listed: resolutions 0..MaxTopRes
MaxTopRes == 1
\* how many resolutions a listing or an expansion goes below such a cell
MaxSpan == 2
\* how many cells are removed from a complete child list to build an input
MaxHoles == 1
\* how many zeros are put before the text of an index
MaxPad == 1
\* the largest engine code translated, besides the one of the tests
MaxCode == 20
\* how many extra copies of a cell a duplicated input holds
MaxDup == 7

\* the widest disk asked for
MaxK == 2
\* the longest buffer handed to cellsFromC on its own
MaxBuf == 4
\* the greatest maximum a caller passes to PolygonToCellsExperimental, but
\* for math.MaxInt64
MaxCells == 7
\* the threads that call concurrently
NumThreads == 2
\* the highest resolution NumCells is asked for; the resolutions above
\* MaxResolution are there for the counts that no longer fit
MaxNumRes == 22
\* the limbs of the ints that hold every count of the model exactly
MaxLimbs == 7

(***************************************************************************)
(* Program constants.                                                      *)
(***************************************************************************)
MaxResolution == 15
NumBaseCells == 122
NumPentagons == 12
base16 == 16

numCellEdges == 6

numEdgeCells == 2

numCellVertexes == 6
bitSize == 64

\* the code TestToErr passes that errMap does not hold
UnknownCode == 999

\* engine constants of the index layout
H3_CELL_MODE == 1
INVALID_DIGIT == 7
K_AXES_DIGIT == 1
CENTER_DIGIT == 0
NUM_DIGITS == 7

\* engine error codes, as errMap keys them
E_SUCCESS == 0
E_FAILED == 1
E_DOMAIN == 2
E_RES_DOMAIN == 4
E_CELL_INVALID == 5
E_PENTAGON == 9
E_DUPLICATE_INPUT == 10
E_RES_MISMATCH == 12

E_DIR_EDGE_INVALID == 6

E_NOT_NEIGHBORS == 11

E_MEMORY_BOUNDS == 14

E_OPTION_INVALID == 15

\* the containment modes of PolygonToCellsExperimental
ContainmentCenter == 0

ContainmentOverlapping == 2

ContainmentFull_asOverlapping == ContainmentOverlapping

ContainmentFull == 1

ContainmentOverlappingBbox == 3

ContainmentInvalid == 4

H3_DIRECTEDEDGE_MODE == 2

H3_VERTEX_MODE == 4

\* the twelve pentagon base cells (pentagonCell of the tests lies on 14)
PentagonBaseCells == {4, 14, 24, 38, 49, 58, 63, 72, 83, 97, 107, 117}

(***************************************************************************)
(* Helpers on sequences and integers.                                      *)
(***************************************************************************)
Range(s) == {s[i] : i \in 1..Len(s)}

Min(S) == CHOOSE x \in S : \A y \in S : x <= y

RECURSIVE Concat(_, _, _)
\* f[i] \o f[i+1] \o ... \o f[n], split in halves
Concat(f, i, n) ==
    IF i > n THEN <<>>
    ELSE IF i = n THEN f[i]
    ELSE LET mid == (i + n) \div 2
         IN Concat(f, i, mid) \o Concat(f, mid + 1, n)

RECURSIVE intPow(_, _)
\* n to the power m; n itself for every m below 2 but 0
intPow(n, m) ==
    IF m = 0 THEN 1 ELSE IF m < 2 THEN n ELSE n * intPow(n, m - 1)

(***************************************************************************)
(* The index word.                                                         *)
(***************************************************************************)
H3_NULL ==
    [hi |-> 0, mode |-> 0, rsv |-> 0, res |-> 0, bc |-> 0,
     digits |-> [i \in 1..MaxResolution |-> 0]]

\* the word with every bit set: Cell(-1)
AllOnes ==
    [hi |-> 1, mode |-> 15, rsv |-> 7, res |-> 15, bc |-> 127,
     digits |-> [i \in 1..MaxResolution |-> 7]]

\* the cell of base cell bc and digit sequence ds
MkCell(bc, ds) ==
    [hi |-> 0, mode |-> H3_CELL_MODE, rsv |-> 0, res |-> Len(ds), bc |-> bc,
     digits |-> [i \in 1..MaxResolution |->
                    IF i <= Len(ds) THEN ds[i] ELSE INVALID_DIGIT]]

\* Go's  c == 0  and  c <= 0  on an int64 index
IsZero(h) == h = H3_NULL
IsNegative(h) == h.hi = 1

(***************************************************************************)
(* The engine: index inspection and hierarchy.                             *)
(***************************************************************************)
getResolution(h) == h.res

getBaseCellNumber(h) == h.bc

isBaseCellPentagon(bc) == bc \in PentagonBaseCells

\* the first non-zero digit of h, 0 when there is none
LeadingNonZeroDigit(h) ==
    LET nz == {i \in 1..h.res : h.digits[i] # CENTER_DIGIT}
    IN IF nz = {} THEN CENTER_DIGIT ELSE h.digits[Min(nz)]

isValidCell(h) ==
    /\ h.hi = 0
    /\ h.mode = H3_CELL_MODE
    /\ h.rsv = 0
    /\ h.bc < NumBaseCells
    /\ h.res <= MaxResolution
    /\ \A i \in 1..h.res : h.digits[i] # INVALID_DIGIT
    /\ \A i \in (h.res + 1)..MaxResolution : h.digits[i] = INVALID_DIGIT
    /\ isBaseCellPentagon(h.bc) => LeadingNonZeroDigit(h) # K_AXES_DIGIT

isPentagon(h) ==
    /\ isBaseCellPentagon(h.bc)
    /\ \A i \in 1..h.res : h.digits[i] = CENTER_DIGIT

cellToParent(h, parentRes) ==
    IF parentRes < 0 \/ parentRes > MaxResolution
    THEN [err |-> E_RES_DOMAIN, out |-> H3_NULL]
    ELSE IF parentRes > h.res
    THEN [err |-> E_RES_MISMATCH, out |-> H3_NULL]
    ELSE [err |-> E_SUCCESS,
          out |-> [h EXCEPT !.res = parentRes,
                            !.digits = [i \in 1..MaxResolution |->
                                IF i <= parentRes THEN h.digits[i]
                                ELSE INVALID_DIGIT]]]

makeDirectChild(h, d) ==
    [h EXCEPT !.res = h.res + 1, !.digits[h.res + 1] = d]

\* the digits of the children of h, in order: a pentagon has no K-axis child
ChildDigits(h) ==
    IF isPentagon(h) THEN <<0, 2, 3, 4, 5, 6>> ELSE <<0, 1, 2, 3, 4, 5, 6>>

\* the number of descendants n resolutions below a pentagon
PentagonChildCount(n) == 1 + (5 * (intPow(NUM_DIGITS, n) - 1)) \div 6

cellToChildrenSize(h, childRes) ==
    IF childRes < h.res \/ childRes > MaxResolution
    THEN [err |-> E_RES_DOMAIN, out |-> 0]
    ELSE [err |-> E_SUCCESS,
          out |-> IF isPentagon(h) THEN PentagonChildCount(childRes - h.res)
                  ELSE intPow(NUM_DIGITS, childRes - h.res)]

RECURSIVE cellToChildren(_, _)
\* the descendants of h at childRes >= h.res, in digit order
cellToChildren(h, childRes) ==
    IF h.res >= childRes THEN <<h>>
    ELSE LET ds == ChildDigits(h)
             sub == [i \in 1..Len(ds) |->
                        cellToChildren(makeDirectChild(h, ds[i]), childRes)]
         IN Concat(sub, 1, Len(ds))

RECURSIVE cellToChildPosFrom(_, _, _)
\* the offset child's digits at resolutions res, res-1, ..., parentRes+1 add
cellToChildPosFrom(child, parentRes, res) ==
    IF res <= parentRes THEN 0
    ELSE LET parent == cellToParent(child, res - 1).out
             parentIsPentagon == isPentagon(parent)
             rawDigit == child.digits[res]
             digit == IF parentIsPentagon /\ rawDigit > 0
                      THEN rawDigit - 1 ELSE rawDigit
             hexChildCount == intPow(NUM_DIGITS, child.res - res)
             step == IF parentIsPentagon
                     THEN IF digit = CENTER_DIGIT THEN 0
                          ELSE PentagonChildCount(child.res - res)
                               + (digit - 1) * hexChildCount
                     ELSE hexChildCount * rawDigit
         IN step + cellToChildPosFrom(child, parentRes, res - 1)

cellToChildPos(child, parentRes) ==
    LET p == cellToParent(child, parentRes)
    IN IF p.err # E_SUCCESS THEN [err |-> p.err, out |-> 0]
       ELSE IF \E r \in (parentRes + 1)..child.res :
                  \/ child.digits[r] = INVALID_DIGIT
                  \/ /\ isPentagon(cellToParent(child, r - 1).out)
                     /\ child.digits[r] = K_AXES_DIGIT
       THEN [err |-> E_CELL_INVALID, out |-> 0]
       ELSE [err |-> E_SUCCESS,
             out |-> cellToChildPosFrom(child, parentRes, child.res)]

RECURSIVE childPosToCellFrom(_, _, _, _, _)
\* sets the digits of resolutions res..childRes of cell from the offset idx
childPosToCellFrom(cell, idx, res, childRes, inPent) ==
    IF res > childRes THEN cell
    ELSE LET resWidth == intPow(NUM_DIGITS, childRes - res)
             pentWidth == PentagonChildCount(childRes - res)
         IN IF inPent /\ idx < pentWidth
            THEN childPosToCellFrom([cell EXCEPT !.digits[res] = CENTER_DIGIT],
                                    idx, res + 1, childRes, TRUE)
            ELSE IF inPent
            THEN childPosToCellFrom(
                     [cell EXCEPT !.digits[res] =
                                      ((idx - pentWidth) \div resWidth) + 2],
                     (idx - pentWidth) % resWidth, res + 1, childRes, FALSE)
            ELSE childPosToCellFrom(
                     [cell EXCEPT !.digits[res] = idx \div resWidth],
                     idx % resWidth, res + 1, childRes, FALSE)

childPosToCell(childPos, parent, childRes) ==
    IF childRes < 0 \/ childRes > MaxResolution
    THEN [err |-> E_RES_DOMAIN, out |-> H3_NULL]
    ELSE IF childRes < parent.res
    THEN [err |-> E_RES_MISMATCH, out |-> H3_NULL]
    ELSE IF childPos < 0 \/ childPos >= cellToChildrenSize(parent, childRes).out
    THEN [err |-> E_DOMAIN, out |-> H3_NULL]
    ELSE [err |-> E_SUCCESS,
          out |-> childPosToCellFrom([parent EXCEPT !.res = childRes], childPos,
                                     parent.res + 1, childRes,
                                     isPentagon(parent))]

(***************************************************************************)
(* The engine: compaction.  A buffer is a sequence of index words; the     *)
(* engine writes its output from the front of a zeroed buffer.             *)
(***************************************************************************)
ZeroBuffer(n) == [i \in 1..n |-> H3_NULL]

\* cells written at the front of a buffer of size n
FillBuffer(cells, n) ==
    [i \in 1..n |-> IF i <= Len(cells) THEN cells[i] ELSE H3_NULL]

\* every child of parent is in the set S
AllChildrenIn(parent, S) ==
    \A i \in 1..Len(ChildDigits(parent)) :
        makeDirectChild(parent, ChildDigits(parent)[i]) \in S

RECURSIVE compactLevels(_)
\* cells: duplicate-free, at one resolution.  The cells with an incomplete
\* sibling set stay; each complete sibling set becomes its parent, and the
\* parents are compacted in turn.
compactLevels(cells) ==
    IF cells = <<>> THEN <<>>
    ELSE IF cells[1].res = 0 THEN cells
    ELSE LET S == Range(cells)
             parentOf(c) == cellToParent(c, c.res - 1).out
             compactable(c) == AllChildrenIn(parentOf(c), S)
             stay == SelectSeq(cells, LAMBDA c : ~compactable(c))
             centers == SelectSeq(cells, LAMBDA c :
                            /\ compactable(c)
                            /\ c.digits[c.res] = CENTER_DIGIT)
             parents == [i \in 1..Len(centers) |-> parentOf(centers[i])]
         IN stay \o compactLevels(parents)

compactCells(h3Set, numHexes) ==
    IF \E i \in 1..numHexes : ~isValidCell(h3Set[i])
    THEN [err |-> E_CELL_INVALID, out |-> ZeroBuffer(numHexes)]
    ELSE IF \E i, j \in 1..numHexes : i < j /\ h3Set[i] = h3Set[j]
    THEN [err |-> E_DUPLICATE_INPUT, out |-> ZeroBuffer(numHexes)]
    ELSE [err |-> E_SUCCESS,
          out |-> FillBuffer(compactLevels(h3Set), numHexes)]

RECURSIVE SumSizes(_, _, _, _)
\* the sizes of the expansions of set[i..n] added; zero words add nothing
SumSizes(set, i, n, res) ==
    IF i > n THEN 0
    ELSE IF i = n
    THEN (IF IsZero(set[i]) THEN 0 ELSE cellToChildrenSize(set[i], res).out)
    ELSE LET mid == (i + n) \div 2
         IN SumSizes(set, i, mid, res) + SumSizes(set, mid + 1, n, res)

uncompactCellsSize(compactedSet, numCompacted, res) ==
    IF \E i \in 1..numCompacted :
           /\ ~IsZero(compactedSet[i])
           /\ cellToChildrenSize(compactedSet[i], res).err # E_SUCCESS
    THEN [err |-> E_RES_MISMATCH, out |-> 0]
    ELSE [err |-> E_SUCCESS, out |-> SumSizes(compactedSet, 1, numCompacted, res)]

uncompactCells(compactedSet, numCompacted, numOut, res) ==
    IF \E i \in 1..numCompacted :
           /\ ~IsZero(compactedSet[i])
           /\ cellToChildrenSize(compactedSet[i], res).err # E_SUCCESS
    THEN [err |-> E_RES_MISMATCH, out |-> ZeroBuffer(numOut)]
    ELSE LET sub == [i \in 1..numCompacted |->
                        IF IsZero(compactedSet[i]) THEN <<>>
                        ELSE cellToChildren(compactedSet[i], res)]
             all == Concat(sub, 1, numCompacted)
         IN IF Len(all) > numOut
            THEN [err |-> E_FAILED, out |-> ZeroBuffer(numOut)]
            ELSE [err |-> E_SUCCESS, out |-> FillBuffer(all, numOut)]

(***************************************************************************)
(* The engine: the grid.  Below a hexagon base cell the cells of one       *)
(* resolution lie on a hexagonal lattice; a cell's place on it is a pair   *)
(* <<a, b>> of integers, found from its digits one resolution at a time.   *)
(***************************************************************************)
\* the lattice step of a digit: center, K, J, JK, I, IK, IJ
UnitVec(d) ==
    CASE d = 0 -> <<0, 0>>
      [] d = 1 -> <<-1, -1>>
      [] d = 2 -> <<0, 1>>
      [] d = 3 -> <<-1, 0>>
      [] d = 4 -> <<1, 0>>
      [] d = 5 -> <<0, -1>>
      [] d = 6 -> <<1, 1>>

\* the place of a cell's center on the lattice of the next finer resolution,
\* which is turned counter-clockwise at the odd resolutions and clockwise at
\* the even ones
downAp7(v) == <<2 * v[1] + v[2], 3 * v[2] - v[1]>>

downAp7r(v) == <<3 * v[1] - v[2], v[1] + 2 * v[2]>>

isResolutionClassIII(r) == r % 2 = 1

RECURSIVE localIJFrom(_, _)
\* the place of the ancestor of h at resolution r
localIJFrom(h, r) ==
    IF r = 0 THEN <<0, 0>>
    ELSE LET up == localIJFrom(h, r - 1)
             v == IF isResolutionClassIII(r) THEN downAp7(up) ELSE downAp7r(up)
             u == UnitVec(h.digits[r])
         IN <<v[1] + u[1], v[2] + u[2]>>

cellToLocalIj(h) == localIJFrom(h, h.res)

Abs(x) == IF x < 0 THEN -x ELSE x

Max3(x, y, z) ==
    IF x >= y /\ x >= z THEN x ELSE IF y >= z THEN y ELSE z

\* the number of lattice steps between two places
ijDistance(p, q) ==
    LET a == p[1] - q[1]
        b == p[2] - q[2]
    IN Max3(Abs(a), Abs(b), Abs(a - b))

\* the corners of the ring walk, in the order the engine visits them
RingCorners == <<4, 6, 2, 3, 1, 5>>

\* the step from the origin to the cell m (from 0) of the ring k: the walk
\* starts k steps along the first corner and goes round the six sides
RingOffset(k, m) ==
    IF k = 0 THEN <<0, 0>>
    ELSE LET side == m \div k
             t == m % k
             c == UnitVec(RingCorners[side + 1])
             n == UnitVec(RingCorners[((side + 1) % 6) + 1])
         IN <<k * c[1] + t * (n[1] - c[1]), k * c[2] + t * (n[2] - c[2])>>

\* the steps to the cells of the rings 0..k with their distances, in the
\* order the engine writes them
DiskOffsets(k) ==
    Concat([r \in 0..k |->
                [m \in 1..(IF r = 0 THEN 1 ELSE 6 * r) |->
                    [off |-> RingOffset(r, m - 1), dist |-> r]]],
           0, k)

\* the cell in the middle of the modelled lattice: validCell of the tests
PatchCenter == MkCell(6, <<6, 5, 3, 3, 0>>)

\* the cells whose places are modelled: the cells within MaxK + 1 of the
\* middle, among the cells of its resolution below the two ancestors of
\* resolution 2 that hold it and its rings
GridPatch ==
    {c \in Range(cellToChildren(MkCell(6, <<6, 5>>), 5))
               \cup Range(cellToChildren(MkCell(6, <<6, 1>>), 5)) :
        ijDistance(cellToLocalIj(PatchCenter), cellToLocalIj(c)) <= MaxK + 1}

PlaceOf == [c \in GridPatch |-> cellToLocalIj(c)]

CellAtPlace ==
    [p \in {PlaceOf[c] : c \in GridPatch} |->
        CHOOSE c \in GridPatch : PlaceOf[c] = p]

\* the whole disk of radius k round origin lies on the modelled lattice
DiskInPatch(origin, k) ==
    /\ origin \in GridPatch
    /\ \A e \in Range(DiskOffsets(k)) :
           <<PlaceOf[origin][1] + e.off[1], PlaceOf[origin][2] + e.off[2]>>
               \in DOMAIN CellAtPlace

\* the five neighbors of a pentagon: its siblings below the pentagon parent
pentagonNeighbors(h) ==
    LET parent == cellToParent(h, h.res - 1).out
    IN Tail(cellToChildren(parent, h.res))

\* the slots of a traversal of the rings 0..k round origin: cell and
\* distance; the slots a pentagon leaves unused hold 0 and the distance 0
hexagonSlots(at, offs) ==
    [m \in 1..Len(offs) |->
        [cell |-> CellAtPlace[<<at[1] + offs[m].off[1],
                                at[2] + offs[m].off[2]>>],
         dist |-> offs[m].dist]]

pentagonSlots(origin, k, around) ==
    <<[cell |-> origin, dist |-> 0]>> \o
    (IF k = 0 THEN <<>> ELSE [m \in 1..5 |-> [cell |-> around[m], dist |-> 1]])

padSlots(cells, n) ==
    [m \in 1..n |->
        IF m <= Len(cells) THEN cells[m] ELSE [cell |-> H3_NULL, dist |-> 0]]

diskSlots(origin, k, n) ==
    padSlots(IF isPentagon(origin)
             THEN pentagonSlots(origin, k, pentagonNeighbors(origin))
             ELSE hexagonSlots(PlaceOf[origin], DiskOffsets(k)),
             n)

emptySlots(n) == [m \in 1..n |-> [cell |-> H3_NULL, dist |-> 0]]

slotCells(slots) == [m \in 1..Len(slots) |-> slots[m].cell]

slotDists(slots) == [m \in 1..Len(slots) |-> slots[m].dist]

\* the code a traversal fails with before it writes anything, 0 when none
diskArgErr(origin, k) ==
    IF k < 0 THEN E_DOMAIN
    ELSE IF ~isValidCell(origin) THEN E_CELL_INVALID
    ELSE E_SUCCESS

\* a traversal that failed with the code err: the buffers stay as they were
diskFailed(err, n) ==
    [err |-> err, out |-> slotCells(emptySlots(n)),
     distances |-> slotDists(emptySlots(n))]

\* a traversal that wrote the slots
diskWritten(slots) ==
    [err |-> E_SUCCESS, out |-> slotCells(slots), distances |-> slotDists(slots)]

\* the traversal that fails with the code argErr when it is not 0
safeTraversal(argErr, origin, k, n) ==
    IF argErr # E_SUCCESS THEN diskFailed(argErr, n)
    ELSE diskWritten(diskSlots(origin, k, n))

gridDiskDistancesSafe(origin, k, n) ==
    safeTraversal(diskArgErr(origin, k), origin, k, n)

\* the fast traversal gives up at a pentagon
gridDiskDistancesUnsafe(origin, k, n) ==
    safeTraversal(IF diskArgErr(origin, k) = E_SUCCESS /\ isPentagon(origin)
                  THEN E_PENTAGON ELSE diskArgErr(origin, k),
                  origin, k, n)

firstSuccess(fast, safe) == IF fast.err = E_SUCCESS THEN fast ELSE safe

\* the fast traversal first, the safe one when it fails
gridDiskDistances(origin, k, n) ==
    firstSuccess(gridDiskDistancesUnsafe(origin, k, n),
                 gridDiskDistancesSafe(origin, k, n))

withoutDistances(r) == [err |-> r.err, out |-> r.out]

gridDisk(origin, k, n) == withoutDistances(gridDiskDistances(origin, k, n))

gridDiskUnsafe(origin, k, n) ==
    withoutDistances(gridDiskDistancesUnsafe(origin, k, n))

ringCells(ring, n) ==
    [m \in 1..n |-> IF m <= Len(ring) THEN ring[m].cell ELSE H3_NULL]

\* the slots of the ring k alone, n of them
ringSlots(origin, k, n) ==
    ringCells(SelectSeq(diskSlots(origin, k, 3 * k * (k + 1) + 1),
                        LAMBDA e : e.dist = k /\ e.cell # H3_NULL),
              n)

\* the ring that fails with the code argErr when it is not 0
ringTraversal(argErr, origin, k, n) ==
    IF argErr # E_SUCCESS THEN [err |-> argErr, out |-> ZeroBuffer(n)]
    ELSE [err |-> E_SUCCESS, out |-> ringSlots(origin, k, n)]

gridRing(origin, k, n) == ringTraversal(diskArgErr(origin, k), origin, k, n)

\* the ring 0 is the origin; a wider ring fails at a pentagon
gridRingUnsafe(origin, k, n) ==
    ringTraversal(IF diskArgErr(origin, k) = E_SUCCESS /\ k > 0
                         /\ isPentagon(origin)
                  THEN E_PENTAGON ELSE diskArgErr(origin, k),
                  origin, k, n)

(***************************************************************************)
(* The engine: distances, lines, directed edges and vertexes.  Two cells   *)
(* are looked at together when they lie on the modelled lattice, or when   *)
(* one is a pentagon and the other a cell of its ring.                     *)
(***************************************************************************)
onLattice(a, b) == a \in GridPatch /\ b \in GridPatch

\* the direction from origin to a neighbor h, INVALID_DIGIT when h is none
directionForNeighbor(origin, h) ==
    IF ~isValidCell(origin) \/ ~isValidCell(h) \/ origin.res # h.res
    THEN INVALID_DIGIT
    ELSE IF isPentagon(origin)
    THEN (IF \E m \in 1..5 : pentagonNeighbors(origin)[m] = h
          THEN h.digits[h.res] ELSE INVALID_DIGIT)
    ELSE IF onLattice(origin, h)
              /\ \E d \in 1..6 :
                     <<PlaceOf[h][1] - PlaceOf[origin][1],
                       PlaceOf[h][2] - PlaceOf[origin][2]>> = UnitVec(d)
    THEN CHOOSE d \in 1..6 :
             <<PlaceOf[h][1] - PlaceOf[origin][1],
               PlaceOf[h][2] - PlaceOf[origin][2]>> = UnitVec(d)
    ELSE INVALID_DIGIT

\* the neighbor of origin in the direction d, H3_NULL when there is none
neighborInDirection(origin, d) ==
    IF isPentagon(origin)
    THEN (IF d \in 2..6 THEN pentagonNeighbors(origin)[d - 1] ELSE H3_NULL)
    ELSE CellAtPlace[<<PlaceOf[origin][1] + UnitVec(d)[1],
                       PlaceOf[origin][2] + UnitVec(d)[2]>>]

areNeighborCells(origin, destination) ==
    IF origin.mode # H3_CELL_MODE \/ destination.mode # H3_CELL_MODE
    THEN [err |-> E_CELL_INVALID, out |-> 0]
    ELSE IF origin = destination THEN [err |-> E_SUCCESS, out |-> 0]
    ELSE IF origin.res # destination.res
    THEN [err |-> E_RES_MISMATCH, out |-> 0]
    ELSE IF ~isValidCell(origin) \/ ~isValidCell(destination)
    THEN [err |-> E_CELL_INVALID, out |-> 0]
    ELSE [err |-> E_SUCCESS,
          out |-> IF directionForNeighbor(origin, destination) # INVALID_DIGIT
                  THEN 1 ELSE 0]

\* the code the distance of two cells fails with, 0 when none
distanceArgErr(origin, h) ==
    IF origin.res # h.res THEN E_RES_MISMATCH
    ELSE IF ~isValidCell(origin) \/ ~isValidCell(h) THEN E_CELL_INVALID
    ELSE IF origin.bc # h.bc THEN E_FAILED
    ELSE E_SUCCESS

gridDistance(origin, h) ==
    IF distanceArgErr(origin, h) # E_SUCCESS
    THEN [err |-> distanceArgErr(origin, h), out |-> 0]
    ELSE [err |-> E_SUCCESS, out |-> ijDistance(PlaceOf[origin], PlaceOf[h])]

gridPathCellsSize(start, end) ==
    LET d == gridDistance(start, end)
    IN IF d.err # E_SUCCESS THEN [err |-> d.err, out |-> 0]
       ELSE [err |-> E_SUCCESS, out |-> d.out + 1]

\* the cube coordinates of a lattice place, and back
ijToCube(p) == <<-p[1], p[2], p[1] - p[2]>>

cubeToIj(c) == <<-c[1], c[2]>>

\* the integer nearest to num / den, halves away from zero; den > 0
roundRatio(num, den) ==
    IF num >= 0 THEN (2 * num + den) \div (2 * den)
    ELSE -((2 * (-num) + den) \div (2 * den))

\* the cube coordinates nearest to <<c[1], c[2], c[3]>> / den: the
\* coordinate that was rounded the farthest is made up from the two others
cubeRound(c, den) ==
    LET ri == roundRatio(c[1], den)
        rj == roundRatio(c[2], den)
        rk == roundRatio(c[3], den)
        iDiff == Abs(ri * den - c[1])
        jDiff == Abs(rj * den - c[2])
        kDiff == Abs(rk * den - c[3])
    IN IF iDiff > jDiff /\ iDiff > kDiff THEN <<-rj - rk, rj, rk>>
       ELSE IF jDiff > kDiff THEN <<ri, -ri - rk, rk>>
       ELSE <<ri, rj, -ri - rj>>

\* the cells of the line from start to end: the points that divide the
\* segment into as many parts as the distance, each rounded to a cell
gridPathCells(start, end) ==
    LET d == gridDistance(start, end)
        from == ijToCube(PlaceOf[start])
        to == ijToCube(PlaceOf[end])
        den == IF d.out = 0 THEN 1 ELSE d.out
    IN IF d.err # E_SUCCESS THEN [err |-> d.err, out |-> <<>>]
       ELSE [err |-> E_SUCCESS,
             out |-> [n \in 1..(d.out + 1) |->
                 CellAtPlace[cubeToIj(cubeRound(
                     <<from[1] * den + (to[1] - from[1]) * (n - 1),
                       from[2] * den + (to[2] - from[2]) * (n - 1),
                       from[3] * den + (to[3] - from[3]) * (n - 1)>>, den))]]]

\* a directed edge is the word of its origin with the edge mode and the
\* direction in the reserved bits
cellsToDirectedEdge(origin, destination) ==
    LET direction == directionForNeighbor(origin, destination)
    IN IF direction = INVALID_DIGIT
       THEN [err |-> E_NOT_NEIGHBORS, out |-> H3_NULL]
       ELSE [err |-> E_SUCCESS,
             out |-> [origin EXCEPT !.mode = H3_DIRECTEDEDGE_MODE,
                                    !.rsv = direction]]

\* the cell whose word an edge or a vertex carries
ownerOf(e) == [e EXCEPT !.mode = H3_CELL_MODE, !.rsv = 0]

isValidDirectedEdge(e) ==
    /\ e.hi = 0
    /\ e.mode = H3_DIRECTEDEDGE_MODE
    /\ e.rsv \in 1..6
    /\ isValidCell(ownerOf(e))
    /\ ~(isPentagon(ownerOf(e)) /\ e.rsv = K_AXES_DIGIT)

getDirectedEdgeOrigin(e) ==
    IF e.mode # H3_DIRECTEDEDGE_MODE
    THEN [err |-> E_DIR_EDGE_INVALID, out |-> H3_NULL]
    ELSE [err |-> E_SUCCESS, out |-> ownerOf(e)]

getDirectedEdgeDestination(e) ==
    IF ~isValidDirectedEdge(e)
    THEN [err |-> E_DIR_EDGE_INVALID, out |-> H3_NULL]
    ELSE [err |-> E_SUCCESS, out |-> neighborInDirection(ownerOf(e), e.rsv)]

directedEdgeToCells(e) ==
    IF ~isValidDirectedEdge(e)
    THEN [err |-> E_DIR_EDGE_INVALID, out |-> ZeroBuffer(2)]
    ELSE [err |-> E_SUCCESS,
          out |-> <<getDirectedEdgeOrigin(e).out,
                    getDirectedEdgeDestination(e).out>>]

\* one slot per direction 1..6; a pentagon has no edge in the direction of
\* its missing side and its slot is left zero
originToDirectedEdges(origin) ==
    [err |-> E_SUCCESS,
     out |-> [i \in 1..6 |->
                 IF isPentagon(origin) /\ i = K_AXES_DIGIT THEN H3_NULL
                 ELSE [origin EXCEPT !.mode = H3_DIRECTEDEDGE_MODE,
                                     !.rsv = i]]]

\* one slot per vertex 0..5; a pentagon has five and its last slot is left
\* zero.  A vertex is written as the word of the cell with the vertex mode
\* and the number of the vertex in the reserved bits.
cellToVertexes(origin) ==
    IF ~isValidCell(origin) THEN [err |-> E_FAILED, out |-> ZeroBuffer(6)]
    ELSE [err |-> E_SUCCESS,
          out |-> [i \in 1..6 |->
                      IF isPentagon(origin) /\ i = 6 THEN H3_NULL
                      ELSE [origin EXCEPT !.mode = H3_VERTEX_MODE,
                                          !.rsv = i - 1]]]

\* a vertex word: the vertex mode, a valid cell and one of its vertex numbers
isValidVertex(v) ==
    /\ v.hi = 0
    /\ v.mode = H3_VERTEX_MODE
    /\ isValidCell(ownerOf(v))
    /\ v.rsv < (IF isPentagon(ownerOf(v)) THEN 5 ELSE 6)

(***************************************************************************)
(* The wrapper: errors.  A Go error is its variable's name, "nil" is nil.  *)
(***************************************************************************)
errMap ==
    [c \in 0..15 |->
        CASE c = 0 -> "nil"
          [] c = 1 -> "ErrFailed"
          [] c = 2 -> "ErrDomain"
          [] c = 3 -> "ErrLatLngDomain"
          [] c = 4 -> "ErrResolutionDomain"
          [] c = 5 -> "ErrCellInvalid"
          [] c = 6 -> "ErrDirectedEdgeInvalid"
          [] c = 7 -> "ErrUndirectedEdgeInvalid"
          [] c = 8 -> "ErrVertexInvalid"
          [] c = 9 -> "ErrPentagon"
          [] c = 10 -> "ErrDuplicateInput"
          [] c = 11 -> "ErrNotNeighbors"
          [] c = 12 -> "ErrRsolutionMismatch"
          [] c = 13 -> "ErrMemoryAlloc"
          [] c = 14 -> "ErrMemoryBounds"
          [] c = 15 -> "ErrOptionInvalid"]

toErr(errC) == IF errC \in DOMAIN errMap THEN errMap[errC] ELSE "ErrUnknown"

\* errors.Is on the package's error variables, none of which wraps another
ErrorsIs(err, target) == err # "nil" /\ err = target

(***************************************************************************)
(* The wrapper: results and slices.                                        *)
(***************************************************************************)
\* a call that has not been made
NoCall == [panicked |-> FALSE, isNil |-> TRUE, out |-> <<>>, err |-> "none"]

\* a runtime panic: no value is returned
Panic == [panicked |-> TRUE, isNil |-> TRUE, out |-> <<>>, err |-> "nil"]

Ret(out, err) == [panicked |-> FALSE, isNil |-> FALSE, out |-> out, err |-> err]

RetNil(err) == [panicked |-> FALSE, isNil |-> TRUE, out |-> <<>>, err |-> err]

\* one iteration of the refit loop of cellsFromC, at the 1-based position k
refitStep(out, k) == IF IsZero(out[k]) THEN SubSeq(out, 1, k - 1) ELSE out

RECURSIVE refitLoop(_, _, _)
\* the iterations k = hi, hi-1, ..., lo of the refit loop, in that order
refitLoop(out, lo, hi) ==
    IF lo > hi THEN out
    ELSE IF lo = hi THEN refitStep(out, lo)
    ELSE LET mid == (lo + hi) \div 2
             upper == refitLoop(out, mid + 1, hi)
         \* an iteration at k leaves at least k-1 entries, so the
         \* iterations below read inside the slice
         IN IF Len(upper) >= mid THEN refitLoop(upper, lo, mid) ELSE upper

\* a variant of cellsFromC that never refits
cellsFromC_noRefit(chs, prune, refit) ==
    SelectSeq(chs, LAMBDA h : ~(prune /\ (IsZero(h) \/ IsNegative(h))))

\* chs is not empty: &chs[0] panics on an empty slice
cellsFromC(chs, prune, refit) ==
    LET out == SelectSeq(chs, LAMBDA h :
                   ~(prune /\ (IsZero(h) \/ IsNegative(h))))
    IN IF refit THEN refitLoop(out, 1, Len(out)) ELSE out

\* &chs[0] on an empty slice is an index out of range
cellsToCPanics(chs) == Len(chs) = 0

cellsToC(chs) == chs

(***************************************************************************)
(* The wrapper: hierarchy and compaction.                                  *)
(***************************************************************************)
\* A Go int of the build (64 bits) is the sequence of its IntLimbs limbs of
\* 16 bits, the least significant first, in two's complement.
LimbBase == 65536

IntLimbs == 4


\* the int of w limbs that holds n, for 0 <= n < 2^31
limbsOf(n, w) ==
    [i \in 1..w |-> IF i = 1 THEN n % LimbBase
                    ELSE IF i = 2 THEN n \div LimbBase ELSE 0]

RECURSIVE mulFrom(_, _, _, _)
\* the limbs i.. of x * n + carry, the carry out of the last limb dropped
mulFrom(x, n, i, carry) ==
    IF i > Len(x) THEN <<>>
    ELSE <<(x[i] * n + carry) % LimbBase>>
             \o mulFrom(x, n, i + 1, (x[i] * n + carry) \div LimbBase)

\* x * n in the width of x, for a small n >= 0: the product wraps
mulInt(x, n) == mulFrom(x, n, 1, 0)

RECURSIVE addFrom(_, _, _, _)
addFrom(x, y, i, carry) ==
    IF i > Len(x) THEN <<>>
    ELSE <<(x[i] + y[i] + carry) % LimbBase>>
             \o addFrom(x, y, i + 1, (x[i] + y[i] + carry) \div LimbBase)

\* x + y in the width of x: the sum wraps
addInt(x, y) == addFrom(x, y, 1, 0)

IsNegativeInt(x) == x[Len(x)] >= LimbBase \div 2

\* the int of w limbs with the value of the narrower int x
signExtend(x, w) ==
    [i \in 1..w |-> IF i <= Len(x) THEN x[i]
                    ELSE IF IsNegativeInt(x) THEN LimbBase - 1 ELSE 0]

RECURSIVE lessFrom(_, _, _)
\* x < y on the limbs i..1 of two ints that are not negative
lessFrom(x, y, i) ==
    IF i = 0 THEN FALSE
    ELSE IF x[i] # y[i] THEN x[i] < y[i]
    ELSE lessFrom(x, y, i - 1)

\* x < y for two ints of one width
lessInt(x, y) ==
    IF IsNegativeInt(x) # IsNegativeInt(y) THEN IsNegativeInt(x)
    ELSE lessFrom(x, y, Len(x))

RECURSIVE divFrom(_, _, _, _)
\* the limbs i..1 of the quotient of x by the small d, from the top, with
\* the remainder so far
divFrom(x, d, i, rem) ==
    IF i = 0 THEN [quot |-> <<>>, rem |-> rem]
    ELSE LET cur == rem * LimbBase + x[i]
             rest == divFrom(x, d, i - 1, cur % d)
         IN [quot |-> Append(rest.quot, cur \div d), rem |-> rest.rem]

IsZeroInt(x) == \A i \in 1..Len(x) : x[i] = 0

RECURSIVE Decimal(_)
\* the decimal digits of an int that is not negative, the first first
Decimal(x) ==
    IF IsZeroInt(x) THEN <<>>
    ELSE Append(Decimal(divFrom(x, 10, Len(x), 0).quot),
                divFrom(x, 10, Len(x), 0).rem)

RECURSIVE powLoop(_, _, _, _)
\* the iterations i, i+1, ..., m of the loop of intPow
powLoop(result, n, i, m) ==
    IF i > m THEN result ELSE powLoop(mulInt(result, n), n, i + 1, m)

\* intPow on ints of w limbs, for a small n >= 0
intPowOn(n, m, w) ==
    IF m = 0 THEN limbsOf(1, w) ELSE powLoop(limbsOf(n, w), n, 2, m)

NumCellsOn(resolution, w) ==
    addInt(limbsOf(2, w), mulInt(intPowOn(7, resolution, w), 120))

\* a variant of NumCells for a build whose int has 32 bits
NumCells_int32(resolution) ==
    signExtend(NumCellsOn(resolution, 2), IntLimbs)

NumCells(resolution) == NumCellsOn(resolution, IntLimbs)

\* the value of an int x with 0 <= x < 2^31
smallInt(x) == x[1] + LimbBase * x[2]

Resolution(c) == getResolution(c)

\* a variant of IsValid that does not ask the engine
IsValid_skipEngine(c) == ~IsZero(c)

IsValid(c) == ~IsZero(c) /\ isValidCell(c)

\* a variant of Parent that passes the cell's own resolution to the engine
Parent_sameRes(c, resolution) ==
    LET r == cellToParent(c, Resolution(c))
    IN [out |-> r.out, err |-> toErr(r.err)]

Parent(c, resolution) ==
    LET r == cellToParent(c, resolution)
    IN [out |-> r.out, err |-> toErr(r.err)]

ImmediateParent(c) == Parent(c, Resolution(c) - 1)

Children(c, resolution) ==
    LET sz == cellToChildrenSize(c, resolution)
    IN IF toErr(sz.err) # "nil" THEN RetNil(toErr(sz.err))
       ELSE IF sz.out = 0 THEN Panic
       ELSE Ret(cellsFromC(FillBuffer(cellToChildren(c, resolution), sz.out),
                           FALSE, FALSE),
                toErr(E_SUCCESS))

ImmediateChildren(c) == Children(c, Resolution(c) + 1)

\* a variant of CompactCells that discards the engine's code
CompactCells_dropErr(in) ==
    IF cellsToCPanics(in) THEN Panic
    ELSE LET r == compactCells(cellsToC(in), Len(in))
         IN Ret(cellsFromC(r.out, FALSE, TRUE), toErr(E_SUCCESS))

CompactCells(in) ==
    IF cellsToCPanics(in) THEN Panic
    ELSE LET cin == cellsToC(in)
             csz == Len(in)
             r == compactCells(cin, csz)
         IN Ret(cellsFromC(r.out, FALSE, TRUE), toErr(r.err))

\* a variant of UncompactCells that goes on after a failed size query
UncompactCells_noEarlyReturn(in, resolution) ==
    IF cellsToCPanics(in) THEN Panic
    ELSE LET cin == cellsToC(in)
             sz == uncompactCellsSize(cin, Len(cin), resolution)
         IN IF sz.out = 0 THEN Panic
            ELSE LET r == uncompactCells(cin, Len(in), sz.out, resolution)
                 IN Ret(cellsFromC(r.out, FALSE, TRUE), toErr(r.err))

UncompactCells(in, resolution) ==
    IF cellsToCPanics(in) THEN Panic
    ELSE LET cin == cellsToC(in)
             sz == uncompactCellsSize(cin, Len(cin), resolution)
         IN IF toErr(sz.err) # "nil" THEN RetNil(toErr(sz.err))
            ELSE IF sz.out = 0 THEN Panic
            ELSE LET r == uncompactCells(cin, Len(in), sz.out, resolution)
                 IN Ret(cellsFromC(r.out, FALSE, TRUE), toErr(r.err))

\* a variant of ChildPosToCell that discards the engine's code
ChildPosToCell_dropErr(position, a, resolution) ==
    LET r == childPosToCell(position, a, resolution)
    IN [out |-> r.out, err |-> toErr(E_SUCCESS)]

ChildPosToCell(position, a, resolution) ==
    LET r == childPosToCell(position, a, resolution)
    IN [out |-> r.out, err |-> toErr(r.err)]

CellToChildPos(a, resolution) ==
    LET r == cellToChildPos(a, resolution)
    IN [out |-> r.out, err |-> toErr(r.err)]

(***************************************************************************)
(* The wrapper: grid traversal.                                            *)
(***************************************************************************)
maxGridDiskSize(k) == 3 * k * (k + 1) + 1

\* a variant of ringSize without the case of the ring 0
ringSize_noZeroCase(k) == 6 * k

ringSize(k) == IF k = 0 THEN 1 ELSE 6 * k

\* what a wrapper returns from the filled buffer r.out and the code r.err:
\* the cells, pruned when prune is set, and the translated error
cellsRet(r, prune) == Ret(cellsFromC(r.out, prune, FALSE), toErr(r.err))

\* a variant of GridDisk that keeps the slots the engine left unused
GridDisk_noPrune(origin, k) ==
    cellsRet(gridDisk(origin, k, maxGridDiskSize(k)), FALSE)

GridDisk(origin, k) == cellsRet(gridDisk(origin, k, maxGridDiskSize(k)), TRUE)

RECURSIVE disksLoop_partial(_, _, _, _)
disksStep_partial(origins, k, i, out, r) ==
    IF toErr(r.err) # "nil" THEN Ret(out, toErr(r.err))
    ELSE disksLoop_partial(origins, k, i + 1,
             Append(out, cellsFromC(r.out, TRUE, FALSE)))

\* a variant of the loop of GridDisksUnsafe that returns what it has so far
disksLoop_partial(origins, k, i, out) ==
    IF i > Len(origins) THEN Ret(out, "nil")
    ELSE disksStep_partial(origins, k, i, out,
             gridDiskUnsafe(origins[i], k, maxGridDiskSize(k)))

RECURSIVE disksLoop(_, _, _, _)
\* the rest of the iteration i once the engine returned r
disksStep(origins, k, i, out, r) ==
    IF toErr(r.err) # "nil" THEN RetNil(toErr(r.err))
    ELSE disksLoop(origins, k, i + 1,
             Append(out, cellsFromC(r.out, TRUE, FALSE)))

\* the iterations i, i+1, ... of the loop of GridDisksUnsafe
disksLoop(origins, k, i, out) ==
    IF i > Len(origins) THEN Ret(out, "nil")
    ELSE disksStep(origins, k, i, out,
             gridDiskUnsafe(origins[i], k, maxGridDiskSize(k)))

GridDisksUnsafe_partial(origins, k) == disksLoop_partial(origins, k, 1, <<>>)

GridDisksUnsafe(origins, k) == disksLoop(origins, k, 1, <<>>)

\* the slots of the two output buffers sorted into the rings 0..k, each ring
\* in buffer order; ring d is at the position d + 1
ringsFromC(outHexes, outDists, k) ==
    [d \in 1..(k + 1) |->
        LET at == SelectSeq([i \in 1..Len(outDists) |-> i],
                            LAMBDA i : outDists[i] = d - 1)
        IN [j \in 1..Len(at) |-> outHexes[at[j]]]]

\* what the three wrappers return from the filled buffers and the code of r
byDistanceRet(r, k) ==
    IF toErr(r.err) # "nil" THEN RetNil(toErr(r.err))
    ELSE Ret(ringsFromC(r.out, r.distances, k), "nil")

GridDiskDistances(origin, k) ==
    byDistanceRet(gridDiskDistances(origin, k, maxGridDiskSize(k)), k)

\* a variant of GridDiskDistancesUnsafe that asks for the safe traversal
GridDiskDistancesUnsafe_safe(origin, k) ==
    byDistanceRet(gridDiskDistancesSafe(origin, k, maxGridDiskSize(k)), k)

GridDiskDistancesUnsafe(origin, k) ==
    byDistanceRet(gridDiskDistancesUnsafe(origin, k, maxGridDiskSize(k)), k)

GridDiskDistancesSafe(origin, k) ==
    byDistanceRet(gridDiskDistancesSafe(origin, k, maxGridDiskSize(k)), k)

\* a variant of GridRing that hands a negative k on to the engine, with a
\* buffer of one slot
GridRing_noGuard(origin, k) ==
    cellsRet(gridRing(origin, k, IF k < 0 THEN 1 ELSE ringSize(k)), TRUE)

GridRing(origin, k) ==
    IF k < 0 THEN RetNil("ErrDomain")
    ELSE cellsRet(gridRing(origin, k, ringSize(k)), TRUE)

GridRingUnsafe(origin, k) ==
    IF k < 0 THEN RetNil("ErrDomain")
    ELSE cellsRet(gridRingUnsafe(origin, k, ringSize(k)), TRUE)

(***************************************************************************)
(* The wrapper: distances, lines, directed edges and vertexes.             *)
(***************************************************************************)
\* a variant of edgesFromC that keeps every slot
edgesFromC_keepAll(chs) == chs

edgesFromC(chs) == SelectSeq(chs, LAMBDA h : ~(IsZero(h) \/ IsNegative(h)))

\* a variant of vertexesFromC that keeps every slot
vertexesFromC_keepAll(chs) == chs

vertexesFromC(chs) == SelectSeq(chs, LAMBDA h : ~(IsZero(h) \/ IsNegative(h)))

GridDistance(a, b) ==
    LET r == gridDistance(a, b)
    IN [out |-> r.out, err |-> toErr(r.err)]

\* a variant of GridPath that leaves out the last cell of the line
GridPath_withoutEnd(a, b) ==
    LET size == gridPathCellsSize(a, b)
        r == gridPathCells(a, b)
    IN IF toErr(size.err) # "nil" THEN RetNil(toErr(size.err))
       ELSE IF toErr(r.err) # "nil" THEN RetNil(toErr(r.err))
       ELSE Ret(cellsFromC(SubSeq(r.out, 1, size.out - 1), FALSE, FALSE), "nil")

GridPath(a, b) ==
    LET size == gridPathCellsSize(a, b)
        r == gridPathCells(a, b)
    IN IF toErr(size.err) # "nil" THEN RetNil(toErr(size.err))
       ELSE IF toErr(r.err) # "nil" THEN RetNil(toErr(r.err))
       ELSE Ret(cellsFromC(FillBuffer(r.out, size.out), FALSE, FALSE), "nil")

IsNeighbor(c, other) ==
    LET r == areNeighborCells(c, other)
    IN [out |-> r.out = 1, err |-> toErr(r.err)]

\* a variant of DirectedEdge that drops the engine's error
DirectedEdge_dropErr(c, other) ==
    [out |-> cellsToDirectedEdge(c, other).out, err |-> "nil"]

DirectedEdge(c, other) ==
    LET r == cellsToDirectedEdge(c, other)
    IN [out |-> r.out, err |-> toErr(r.err)]

DirectedEdges(c) ==
    LET r == originToDirectedEdges(c)
    IN Ret(edgesFromC(FillBuffer(r.out, numCellEdges)), toErr(r.err))

EdgeIsValid(e) == isValidDirectedEdge(e)

Origin(e) ==
    LET r == getDirectedEdgeOrigin(e)
    IN [out |-> r.out, err |-> toErr(r.err)]

Destination(e) ==
    LET r == getDirectedEdgeDestination(e)
    IN [out |-> r.out, err |-> toErr(r.err)]

Cells(e) ==
    LET r == directedEdgeToCells(e)
    IN IF toErr(r.err) # "nil" THEN RetNil(toErr(r.err))
       ELSE Ret(cellsFromC(FillBuffer(r.out, numEdgeCells), FALSE, FALSE), "nil")

CellToVertexes(c) ==
    LET r == cellToVertexes(c)
    IN IF toErr(r.err) # "nil" THEN RetNil(toErr(r.err))
       ELSE Ret(vertexesFromC(FillBuffer(r.out, numCellVertexes)), "nil")

(***************************************************************************)
(* The wrapper: strings.  A string is a sequence of one-character strings, *)
(* a uint64 in the conversions is its sixteen hexadecimal digits, the most *)
(* significant first.                                                      *)
(***************************************************************************)
Digits == <<"0", "1", "2", "3", "4", "5", "6", "7", "8", "9">>

Letters ==
    <<"a", "b", "c", "d", "e", "f", "g", "h", "i", "j", "k", "l", "m",
      "n", "o", "p", "q", "r", "s", "t", "u", "v", "w", "x", "y", "z">>

UpperLetters ==
    <<"A", "B", "C", "D", "E", "F", "G", "H", "I", "J", "K", "L", "M",
      "N", "O", "P", "Q", "R", "S", "T", "U", "V", "W", "X", "Y", "Z">>

\* the position of c in seq, 0 when c does not occur
IndexOf(seq, c) ==
    IF \E k \in 1..Len(seq) : seq[k] = c
    THEN CHOOSE k \in 1..Len(seq) : seq[k] = c
    ELSE 0

lower(c) ==
    IF IndexOf(UpperLetters, c) > 0 THEN Letters[IndexOf(UpperLetters, c)] ELSE c

ToLower(s) == [k \in 1..Len(s) |-> lower(s[k])]

\* the bits of v in w places, the most significant first
Bits(v, w) == [k \in 1..w |-> (v \div intPow(2, w - k)) % 2]

RECURSIVE FromBits(_)
FromBits(b) ==
    IF b = <<>> THEN 0 ELSE 2 * FromBits(SubSeq(b, 1, Len(b) - 1)) + b[Len(b)]

\* uint64(c): the sixteen hexadecimal digits of the index word
uint64OfCell(h) ==
    LET ds == Concat([k \in 1..MaxResolution |-> Bits(h.digits[k], 3)],
                     1, MaxResolution)
        b == Bits(h.hi, 1) \o Bits(h.mode, 4) \o Bits(h.rsv, 3) \o
             Bits(h.res, 4) \o Bits(h.bc, 7) \o ds
    IN [k \in 1..(bitSize \div 4) |-> FromBits(SubSeq(b, 4 * k - 3, 4 * k))]

\* Cell(i): the index word of sixteen hexadecimal digits
CellOfUint64(w) ==
    LET b == Concat([k \in 1..Len(w) |-> Bits(w[k], 4)], 1, Len(w))
        f(lo, n) == FromBits(SubSeq(b, lo, lo + n - 1))
    IN [hi |-> f(1, 1), mode |-> f(2, 4), rsv |-> f(6, 3), res |-> f(9, 4),
        bc |-> f(13, 7),
        digits |-> [k \in 1..MaxResolution |-> f(17 + 3 * k, 3)]]

\* the digit ParseUint reads from the byte c, -1 when it reads none
digitOf(c) ==
    IF IndexOf(Digits, c) > 0 THEN IndexOf(Digits, c) - 1
    ELSE IF IndexOf(Letters, lower(c)) > 0 THEN IndexOf(Letters, lower(c)) + 9
    ELSE -1

RECURSIVE parseFrom(_, _, _, _)
\* the loop of strconv.ParseUint from the byte k of s on, n the value read
\* so far; n >= cutoff exactly when the top digit of n is not zero
parseFrom(s, k, n, base) ==
    IF k > Len(s) THEN [val |-> n, err |-> "nil"]
    ELSE LET d == digitOf(s[k])
         IN IF d < 0 \/ d >= base
            THEN [val |-> [j \in 1..Len(n) |-> 0], err |-> "ErrSyntax"]
            ELSE IF n[1] # 0
            THEN [val |-> [j \in 1..Len(n) |-> base - 1], err |-> "ErrRange"]
            ELSE parseFrom(s, k + 1, Tail(n) \o <<d>>, base)

\* strconv.ParseUint(s, base16, bitSize)
ParseUint(s, base, size) ==
    LET zero == [j \in 1..(size \div 4) |-> 0]
    IN IF s = <<>> THEN [val |-> zero, err |-> "ErrSyntax"]
       ELSE parseFrom(s, 1, zero, base)

\* strconv.FormatUint(i, base16): no leading zeros, "0" for zero
FormatUint(i, base) ==
    IF \A k \in 1..Len(i) : i[k] = 0 THEN <<"0">>
    ELSE LET first == Min({k \in 1..Len(i) : i[k] # 0})
         IN [k \in 1..(Len(i) - first + 1) |->
                LET d == i[first + k - 1]
                IN IF d < 10 THEN Digits[d + 1] ELSE Letters[d - 9]]

\* a variant of IndexFromString that keeps a leading "0x"
IndexFromString_keepPrefix(s) == ParseUint(s, base16, bitSize).val

IndexFromString(s) ==
    LET t == IF Len(s) > 2 /\ ToLower(SubSeq(s, 1, 2)) = <<"0", "x">>
             THEN SubSeq(s, 3, Len(s))
             ELSE s
    IN ParseUint(t, base16, bitSize).val

IndexToString(i) == FormatUint(i, base16)

CellFromString(s) == CellOfUint64(IndexFromString(s))

CellToString(c) == IndexToString(uint64OfCell(c))

VertexFromString(s) == CellOfUint64(IndexFromString(s))

String(c) == CellToString(c)

MarshalText(c) == [text |-> String(c), err |-> "nil"]

\* the receiver after the call, and the error returned
UnmarshalText(text) ==
    LET c == CellOfUint64(IndexFromString(text))
    IN [c |-> c, err |-> IF ~IsValid(c) THEN "invalid cell index" ELSE "nil"]

IsValidVertex(v) == isValidVertex(v)

\* Vertex.UnmarshalText: the receiver after the call, and the error returned
VertexUnmarshalText(text) ==
    [c |-> VertexFromString(text),
     err |-> IF ~IsValidVertex(VertexFromString(text))
             THEN "invalid cell index" ELSE "nil"]

(***************************************************************************)
(* The engine: regions.  The engine's code is not in src/; the polygon     *)
(* fill follows the specification.  A polygon is read on the lattice of    *)
(* the resolution of PatchCenter, three units of the plane to a lattice    *)
(* step, so that the center and the six corners of every cell are points   *)
(* with integer coordinates; the coordinates are those of the lattice,     *)
(* whose axes are not at a right angle, which changes no containment.      *)
(***************************************************************************)
\* the point of the center of a cell of the patch
cellCenter(c) ==
    <<3 * (PlaceOf[c][1] - PlaceOf[PatchCenter][1]),
      3 * (PlaceOf[c][2] - PlaceOf[PatchCenter][2])>>

\* the point p lies in or on the hexagon round the point at
inHexagon(p, at) ==
    LET x == p[1] - at[1]
        y == p[2] - at[2]
    IN Abs(x + y) <= 3 /\ Abs(2 * y - x) <= 3 /\ Abs(2 * x - y) <= 3

\* the points of the bounding box of the hexagon round at
bboxPoints(at) ==
    {<<at[1] + dx, at[2] + dy>> : dx \in -2..2, dy \in -2..2}

\* the points of a cell: its center, its six corners and the six points
\* between them
cellPoints(at) == {p \in bboxPoints(at) : inHexagon(p, at)}

\* the edge from a to b is crossed by the ray from p towards greater x
rayCrosses(a, b, p) ==
    /\ (a[2] > p[2]) # (b[2] > p[2])
    /\ IF b[2] > a[2]
       THEN (p[1] - a[1]) * (b[2] - a[2]) < (p[2] - a[2]) * (b[1] - a[1])
       ELSE (p[1] - a[1]) * (b[2] - a[2]) > (p[2] - a[2]) * (b[1] - a[1])

\* ray casting: p is inside the loop when its ray crosses an odd number of
\* the loop's edges; no point is inside a loop without vertices
pointInsideGeoLoop(verts, p) ==
    LET n == Len(verts)
        crossed == {i \in 1..n : rayCrosses(verts[i], verts[(i % n) + 1], p)}
    IN Cardinality(crossed) % 2 = 1

\* inside the outer loop and outside every hole
pointInsidePolygon(polygon, p) ==
    /\ pointInsideGeoLoop(polygon.geoloop, p)
    /\ \A h \in 1..Len(polygon.holes) :
           ~pointInsideGeoLoop(polygon.holes[h], p)

\* the cell at the point at is in the fill of the polygon under the mode:
\* 0 its center is inside, 1 all of it is inside, 2 some of it is inside,
\* 3 some of its bounding box is inside
cellInPolygon(polygon, at, mode) ==
    CASE mode = 0 -> pointInsidePolygon(polygon, at)
      [] mode = 1 ->
            \A p \in cellPoints(at) : pointInsidePolygon(polygon, p)
      [] mode = 2 ->
            \E p \in cellPoints(at) : pointInsidePolygon(polygon, p)
      [] mode = 3 ->
            \E p \in bboxPoints(at) : pointInsidePolygon(polygon, p)

RECURSIVE cellsInOrder(_)
\* the cells of S in the order of their places
cellsInOrder(S) ==
    IF S = {} THEN <<>>
    ELSE LET first == CHOOSE c \in S : \A d \in S :
                          \/ PlaceOf[c][1] < PlaceOf[d][1]
                          \/ /\ PlaceOf[c][1] = PlaceOf[d][1]
                             /\ PlaceOf[c][2] <= PlaceOf[d][2]
         IN <<first>> \o cellsInOrder(S \ {first})

\* the cells of the fill, in the order the engine writes them
polygonCells(polygon, mode) ==
    cellsInOrder({c \in GridPatch :
                     cellInPolygon(polygon, cellCenter(c), mode)})

\* the extent of the outer loop along the axis i, widened by a cell
loopReaches(verts, i, at) ==
    /\ \E v \in Range(verts) : v[i] <= at[i] + 2
    /\ \E v \in Range(verts) : v[i] >= at[i] - 2

\* the estimate of the size of the fill: the cells whose box meets the box
\* of the outer loop
polygonSizeEstimate(polygon) ==
    Cardinality({c \in GridPatch :
                    /\ loopReaches(polygon.geoloop, 1, cellCenter(c))
                    /\ loopReaches(polygon.geoloop, 2, cellCenter(c))})

polygonArgErr(res, flags, modes) ==
    IF res < 0 \/ res > MaxResolution THEN E_RES_DOMAIN
    ELSE IF flags \notin modes THEN E_OPTION_INVALID
    ELSE E_SUCCESS

maxPolygonToCellsSize(polygon, res, flags) ==
    IF polygonArgErr(res, flags, {0}) # E_SUCCESS
    THEN [out |-> 0, err |-> polygonArgErr(res, flags, {0})]
    ELSE [out |-> polygonSizeEstimate(polygon), err |-> E_SUCCESS]

maxPolygonToCellsSizeExperimental(polygon, res, flags) ==
    IF polygonArgErr(res, flags, 0..3) # E_SUCCESS
    THEN [out |-> 0, err |-> polygonArgErr(res, flags, 0..3)]
    ELSE [out |-> polygonSizeEstimate(polygon), err |-> E_SUCCESS]

\* the fill under the center mode, written over the zeroed buffer of n slots
polygonToCells(polygon, res, flags, n) ==
    IF polygonArgErr(res, flags, {0}) # E_SUCCESS
    THEN [out |-> ZeroBuffer(n), err |-> polygonArgErr(res, flags, {0})]
    ELSE [out |-> FillBuffer(polygonCells(polygon, 0), n),
          err |-> E_SUCCESS]

\* the cells written before the engine stops: all of them, or the first
\* size of them when the fill holds more than size, an int64 that is not
\* negative
writtenWithin(cells, size, n) ==
    IF lessInt(size, limbsOf(Len(cells), IntLimbs))
    THEN [out |-> FillBuffer(SubSeq(cells, 1, smallInt(size)), n),
          err |-> E_MEMORY_BOUNDS]
    ELSE [out |-> FillBuffer(cells, n), err |-> E_SUCCESS]

polygonToCellsExperimental(polygon, res, flags, size, n) ==
    IF polygonArgErr(res, flags, 0..3) # E_SUCCESS
    THEN [out |-> ZeroBuffer(n),
          err |-> polygonArgErr(res, flags, 0..3)]
    ELSE writtenWithin(polygonCells(polygon, flags), size, n)

(***************************************************************************)
(* The wrapper: polygons and their C buffers.  The C heap of a call is the *)
(* sequence of the blocks malloc has returned, with the number of times    *)
(* each was handed to free, and the number of reads and writes through a   *)
(* nil pointer or into a freed block; a pointer is the position of its     *)
(* block, and 0 is nil.                                                    *)
(***************************************************************************)
\* math.MaxInt64
MathMaxInt64 == <<65535, 65535, 65535, 32767>>

EmptyHeap == [blocks |-> <<>>, faults |-> 0]

malloc(heap, data) ==
    [ptr |-> Len(heap.blocks) + 1,
     heap |-> [heap EXCEPT !.blocks = Append(@, [data |-> data, frees |-> 0])]]

\* free(NULL) does nothing
free(heap, ptr) ==
    IF ptr = 0 THEN heap ELSE [heap EXCEPT !.blocks[ptr].frees = @ + 1]

\* the block of ptr can be read and written
Live(heap, ptr) == ptr # 0 /\ heap.blocks[ptr].frees = 0

\* the coordinates handed to the engine; the factor DegsToRads is left out
toCPtr(g) == [lat |-> g.Lat, lng |-> g.Lng]

latLngsToC(coords, heap) ==
    IF Len(coords) = 0 THEN [ptr |-> 0, heap |-> heap]
    ELSE malloc(heap, [i \in 1..Len(coords) |-> toCPtr(coords[i])])

\* the GeoLoop struct written at the position i of the array at cgeofences
writeGeoLoop(cgeofences, i, numVerts, v) ==
    [ptr |-> cgeofences,
     heap |-> [v.heap EXCEPT !.blocks[cgeofences].data =
                  Append(@, [verts |-> v.ptr, numVerts |-> numVerts])]]

RECURSIVE geoLoopsFrom(_, _, _, _)
\* the iterations i.. of the loop of geoLoopsToC
geoLoopsFrom(geofences, i, cgeofences, heap) ==
    IF i > Len(geofences) THEN [ptr |-> cgeofences, heap |-> heap]
    ELSE geoLoopsFrom(geofences, i + 1, cgeofences,
             writeGeoLoop(cgeofences, i, Len(geofences[i]),
                          latLngsToC(geofences[i], heap)).heap)

geoLoopsToC(geofences, heap) ==
    IF Len(geofences) = 0 THEN [ptr |-> 0, heap |-> heap]
    ELSE geoLoopsFrom(geofences, 1, Len(heap.blocks) + 1,
                      malloc(heap, <<>>).heap)

\* the struct allocCGeoPolygon returns once both arrays are there
cGeoPolygon(gp, cverts, choles) ==
    [cgp |-> [geoloop |-> [numVerts |-> Len(gp.GeoLoop), verts |-> cverts],
              numHoles |-> Len(gp.Holes),
              holes |-> choles.ptr],
     heap |-> choles.heap]

geoPolygonWithVerts(gp, v) ==
    cGeoPolygon(gp, v.ptr, geoLoopsToC(gp.Holes, v.heap))

allocCGeoPolygon(gp, heap) ==
    geoPolygonWithVerts(gp, latLngsToC(gp.GeoLoop, heap))

\* one iteration of the loop of freeCGeoPolygon: the verts of the hole i
\* (from 1) of the array at ph are freed and set to nil
freeHole(heap, ph, i) ==
    IF ~Live(heap, ph) THEN [heap EXCEPT !.faults = @ + 1]
    ELSE [free(heap, heap.blocks[ph].data[i].verts)
              EXCEPT !.blocks[ph].data[i].verts = 0]

RECURSIVE freeHoles(_, _, _, _)
freeHoles(heap, ph, i, numHoles) ==
    IF i > numHoles THEN heap
    ELSE freeHoles(freeHole(heap, ph, i), ph, i + 1, numHoles)

freeCGeoPolygon_leaveHoles(cgp, heap) ==
    [cgp |-> [cgp EXCEPT !.geoloop.verts = 0, !.holes = 0],
     heap |-> free(free(heap, cgp.geoloop.verts), cgp.holes)]

freeCGeoPolygon(cgp, heap) ==
    [cgp |-> [cgp EXCEPT !.geoloop.verts = 0, !.holes = 0],
     heap |-> free(freeHoles(free(heap, cgp.geoloop.verts),
                             cgp.holes, 1, cgp.numHoles),
                   cgp.holes)]

\* what the engine reads of a loop whose struct is loop
readGeoLoop(heap, loop) ==
    [i \in 1..loop.numVerts |->
        <<heap.blocks[loop.verts].data[i].lng,
          heap.blocks[loop.verts].data[i].lat>>]

\* what the engine reads of the polygon at &cpoly
readGeoPolygon(cgp, heap) ==
    [geoloop |-> readGeoLoop(heap, cgp.geoloop),
     holes |-> [h \in 1..cgp.numHoles |->
                   readGeoLoop(heap, heap.blocks[cgp.holes].data[h])]]

\* what the engine reads of the polygon allocCGeoPolygon returned
readAllocated(a) == readGeoPolygon(a.cgp, a.heap)

\* the C.GeoPolygon of a call that has allocated nothing
ZeroCGeoPolygon ==
    [geoloop |-> [numVerts |-> 0, verts |-> 0], numHoles |-> 0, holes |-> 0]

\* the end of a call: what it returns, the heap and the struct cpoly it
\* leaves, and the number of calls it made of the engine
Outcome(ret, heap, cpoly, calls) ==
    [ret |-> ret, heap |-> heap, cpoly |-> cpoly, calls |-> calls]

\* a call that has not been made
NoOutcome == Outcome(NoCall, EmptyHeap, ZeroCGeoPolygon, 0)

freedOutcome(f, ret, calls) == Outcome(ret, f.heap, f.cgp, calls)

\* the deferred freeCGeoPolygon(&cpoly) runs as the call returns or panics
deferredFree(a, ret, calls) ==
    freedOutcome(freeCGeoPolygon(a.cgp, a.heap), ret, calls)

\* PolygonToCells from the size query on; &out[0] panics when maxLen is 0
fillSized(a, resolution, maxLen) ==
    IF toErr(maxLen.err) # "nil"
    THEN deferredFree(a, RetNil(toErr(maxLen.err)), 1)
    ELSE IF maxLen.out = 0 THEN deferredFree(a, Panic, 1)
    ELSE deferredFree(a,
             cellsRet(polygonToCells(readAllocated(a), resolution, 0,
                                     maxLen.out), TRUE),
             2)

fillAllocated(a, resolution) ==
    fillSized(a, resolution,
              maxPolygonToCellsSize(readAllocated(a), resolution, 0))

PolygonToCells_noGuard(polygon, resolution) ==
    fillAllocated(allocCGeoPolygon(polygon, EmptyHeap), resolution)

PolygonToCells(polygon, resolution) ==
    IF Len(polygon.GeoLoop) = 0
    THEN Outcome(RetNil("nil"), EmptyHeap, ZeroCGeoPolygon, 0)
    ELSE fillAllocated(allocCGeoPolygon(polygon, EmptyHeap), resolution)

\* PolygonToCellsExperimental from the size query on
experimentalSized(a, resolution, mode, maxNumCells, maxLen) ==
    IF toErr(maxLen.err) # "nil"
    THEN deferredFree(a, RetNil(toErr(maxLen.err)), 1)
    ELSE IF maxLen.out = 0 THEN deferredFree(a, Panic, 1)
    ELSE deferredFree(a,
             cellsRet(polygonToCellsExperimental(
                          readAllocated(a), resolution, mode, maxNumCells,
                          maxLen.out), TRUE),
             2)

experimentalAllocated(a, resolution, mode, maxNumCells) ==
    experimentalSized(a, resolution, mode, maxNumCells,
        maxPolygonToCellsSizeExperimental(readAllocated(a), resolution,
                                          mode))

PolygonToCellsExperimental_noMax(polygon, resolution, mode, maxNumCellsReturn) ==
    IF Len(polygon.GeoLoop) = 0
    THEN Outcome(RetNil("nil"), EmptyHeap, ZeroCGeoPolygon, 0)
    ELSE experimentalAllocated(allocCGeoPolygon(polygon, EmptyHeap),
                               resolution, mode, MathMaxInt64)

\* mode is not negative: C.uint32_t(mode) is mode
PolygonToCellsExperimental(polygon, resolution, mode, maxNumCellsReturn) ==
    IF Len(polygon.GeoLoop) = 0
    THEN Outcome(RetNil("nil"), EmptyHeap, ZeroCGeoPolygon, 0)
    ELSE experimentalAllocated(allocCGeoPolygon(polygon, EmptyHeap),
             resolution, mode,
             IF Len(maxNumCellsReturn) > 0 THEN maxNumCellsReturn[1]
             ELSE MathMaxInt64)

(***************************************************************************)
(* The engine: outlines.  The engine's code is not in src/; the outline of *)
(* a set of cells follows the specification: the edges of the cells that   *)
(* no two cells of the set share, linked into closed loops, an outer loop  *)
(* with the holes inside it to a polygon.  The cells are those of the      *)
(* lattice round PatchCenter, on the plane of the regions; an edge is the  *)
(* pair of its two corners in the direction round its cell.  The cells of  *)
(* resolution 0 tile the sphere: all of them together have no edge that    *)
(* only one of them has.                                                   *)
(***************************************************************************)
\* the corners of a hexagon from its center, in order round it
CornerSteps ==
    <<<<2, 1>>, <<1, 2>>, <<-1, 1>>, <<-2, -1>>, <<-1, -2>>, <<1, -1>>>>

cornerAt(at, k) == <<at[1] + CornerSteps[k][1], at[2] + CornerSteps[k][2]>>

cellEdges(at) ==
    {<<cornerAt(at, k), cornerAt(at, (k % 6) + 1)>> : k \in 1..6}

\* the edges of all the cells with those left out that a neighbor in the
\* set runs the other way
unsharedAmong(all) == {e \in all : <<e[2], e[1]>> \notin all}

\* the edges of the outline of S: of cells on the lattice, or of all the
\* cells of resolution 0
unsharedEdges(S) ==
    IF S \subseteq GridPatch
    THEN unsharedAmong(UNION {cellEdges(cellCenter(c)) : c \in S})
    ELSE {}

\* p comes before q
pointBefore(p, q) == p[1] < q[1] \/ (p[1] = q[1] /\ p[2] < q[2])

RECURSIVE walkLoop(_, _, _)
\* the loop from the last point of acc on, until it is back at acc[1]
walkLoop(E, acc, n) ==
    LET next == (CHOOSE e \in E : e[1] = acc[Len(acc)])[2]
    IN IF next = acc[1] \/ n = 0 THEN acc
       ELSE walkLoop(E, Append(acc, next), n - 1)

RECURSIVE linkLoops(_)
\* the loops of the edges E, each from its first point in the order of the
\* points
linkLoops(E) ==
    IF E = {} THEN <<>>
    ELSE LET starts == {e[1] : e \in E}
             start == CHOOSE p \in starts :
                          \A q \in starts : p = q \/ pointBefore(p, q)
             loop == walkLoop(E, <<start>>, Cardinality(E))
             used == {<<loop[i], loop[(i % Len(loop)) + 1]>> :
                         i \in 1..Len(loop)}
         IN <<loop>> \o linkLoops(E \ used)

RECURSIVE areaFrom(_, _)
\* twice the area a loop runs round, from the edge i on: above zero for a
\* loop that runs the way the corners of a cell do
areaFrom(loop, i) ==
    IF i > Len(loop) THEN 0
    ELSE LET p == loop[i]
             q == loop[(i % Len(loop)) + 1]
         IN p[1] * q[2] - q[1] * p[2] + areaFrom(loop, i + 1)

isOuterLoop(loop) == areaFrom(loop, 1) > 0

\* the outer loop that holds the hole: the smallest of those round it
outerOfHole(outers, hole) ==
    CHOOSE i \in 1..Len(outers) :
        /\ pointInsideGeoLoop(outers[i], hole[1])
        /\ \A j \in 1..Len(outers) :
              pointInsideGeoLoop(outers[j], hole[1])
                  => areaFrom(outers[i], 1) <= areaFrom(outers[j], 1)

\* one polygon to an outer loop: the outer loop, then its holes
polygonsOfLoops(outers, holes) ==
    [i \in 1..Len(outers) |->
        <<outers[i]>> \o
        SelectSeq(holes, LAMBDA h : outerOfHole(outers, h) = i)]

normalizeMultiPolygon(loops) ==
    polygonsOfLoops(SelectSeq(loops, isOuterLoop),
                    SelectSeq(loops, LAMBDA l : ~isOuterLoop(l)))

\* the list the engine leaves at out: its head is the caller's node, which
\* is the first polygon, or a polygon without a loop when there is none
linkedFrom(polygons) == IF Len(polygons) = 0 THEN <<<<>>>> ELSE polygons

toLinkedLatLngs(polygons) ==
    [i \in 1..Len(polygons) |->
        [l \in 1..Len(polygons[i]) |->
            [n \in 1..Len(polygons[i][l]) |->
                [lat |-> polygons[i][l][n][2], lng |-> polygons[i][l][n][1]]]]]

cellsToLinkedMultiPolygon(h3Set, numHexes) ==
    IF \E i \in 1..numHexes : ~isValidCell(h3Set[i])
    THEN [out |-> <<<<>>>>, err |-> E_CELL_INVALID]
    ELSE [out |-> linkedFrom(toLinkedLatLngs(normalizeMultiPolygon(
                      linkLoops(unsharedEdges(Range(h3Set)))))),
          err |-> E_SUCCESS]

(***************************************************************************)
(* The wrapper: outlines.  A list of polygons is returned as the record of *)
(* a Go slice result, its out the sequence of the GeoPolygons.             *)
(***************************************************************************)
\* the factor RadsToDegs is left out
latLngFromC(cg) == [Lat |-> cg.lat, Lng |-> cg.lng]

loopFromLinked(currLoop) ==
    [n \in 1..Len(currLoop) |-> latLngFromC(currLoop[n])]

\* loops[1:]
holesFromLinked(currPoly) ==
    [l \in 1..(Len(currPoly) - 1) |-> loopFromLinked(currPoly[l + 1])]

\* the traversal of the list at cLinkedGeoPolygon; loops[0] is an index out
\* of range for a polygon without a loop
polygonsFromLinked(linked) ==
    IF \E i \in 1..Len(linked) : Len(linked[i]) = 0 THEN Panic
    ELSE Ret([i \in 1..Len(linked) |->
                 [GeoLoop |-> loopFromLinked(linked[i][1]),
                  Holes |-> holesFromLinked(linked[i])]],
             "nil")

multiPolygonRet(r) ==
    IF toErr(r.err) # "nil" THEN RetNil(toErr(r.err))
    ELSE polygonsFromLinked(r.out)

CellsToMultiPolygon_noGuard(cells) ==
    IF cellsToCPanics(cells) THEN Panic
    ELSE multiPolygonRet(cellsToLinkedMultiPolygon(cellsToC(cells),
                                                   Len(cells)))

CellsToMultiPolygon(cells) ==
    IF Len(cells) = 0 THEN RetNil("nil")
    ELSE multiPolygonRet(cellsToLinkedMultiPolygon(cellsToC(cells),
                                                   Len(cells)))

(***************************************************************************)
(* Inputs of the compaction calls: the descendants of a cell with up to    *)
(* MaxHoles of them removed, and with extra copies of the first appended.  *)
(***************************************************************************)
\* base cell 6 holds validCell of the tests, base cell 14 their pentagonCell
ModelBaseCells == {6, 14}

ModelDigits == {0, 2}

\* the cells whose descendants are listed: a base cell, and below it the
\* chain of one repeated digit
TopCells ==
    {MkCell(bc, [i \in 1..n |-> d]) :
        bc \in ModelBaseCells, d \in ModelDigits, n \in 0..MaxTopRes}

RECURSIVE HoleSets(_, _)
\* the sets of at most k of the positions P
HoleSets(P, k) ==
    IF k = 0 THEN {{}}
    ELSE LET prev == HoleSets(P, k - 1)
         IN prev \cup {h \cup {i} : h \in prev, i \in P}

\* seq without the positions in holes
DropAt(seq, holes) ==
    LET one == [i \in 1..Len(seq) |-> IF i \in holes THEN <<>> ELSE <<seq[i]>>]
    IN Concat(one, 1, Len(seq))

WithCopies(list, d) ==
    IF list = <<>> THEN list ELSE list \o [i \in 1..d |-> list[1]]

DupCounts == {0, 1, MaxDup}

\* the cells removed from a list of n: the first two, and the two around
\* the end of a first sibling set of seven
HolePositions(n) == {i \in {1, 2, NUM_DIGITS, NUM_DIGITS + 1} : i <= n}

InputLists ==
    {<<AllOnes>>} \cup
    UNION {
        LET full == cellToChildren(t, t.res + depth)
        IN {DropAt(full, holes) :
                holes \in HoleSets(HolePositions(Len(full)), MaxHoles)}
           \cup {WithCopies(full, d) : d \in DupCounts}
        : t \in TopCells, depth \in 0..MaxSpan }

\* the resolution arguments tried on list: out of range, one above the
\* list's cells, and those below them that keep the expansion within the
\* size of a listing
TargetResolutions(list) ==
    LET r == IF list = <<>> THEN 0 ELSE list[1].res
    IN {-1, MaxResolution + 1, r - 1} \cup
       {r + k : k \in {k \in 0..MaxSpan :
                    Cardinality(Range(list)) * intPow(NUM_DIGITS, k)
                        <= intPow(NUM_DIGITS, MaxSpan)}}

DuplicateFree(list) == Cardinality(Range(list)) = Len(list)

\* every cell of list is a valid cell of resolution r
UniformAt(list, r) ==
    \A i \in 1..Len(list) : IsValid(list[i]) /\ Resolution(list[i]) = r

(***************************************************************************)
(* The compaction calls.                                                   *)
(*   in            the argument of CompactCells and of UncompactCells      *)
(*   target        the resolution argument of UncompactCells               *)
(*   uncompactRet  UncompactCells(in, target)                              *)
(*   compactRet    CompactCells(in)                                        *)
(*   roundTripRet  UncompactCells(compactRet.out, target)                  *)
(***************************************************************************)
VARIABLES in, target, uncompactRet, compactRet, roundTripRet, pcCompact

(***************************************************************************)
(* The hierarchy calls.                                                    *)
(*   cell             the cell c whose ancestors are taken                 *)
(*   parentRes        the resolution argument of Parent                    *)
(*   parentRet        Parent(cell, parentRes)                              *)
(*   childrenRet      Children(parentRet.out, Resolution(cell))            *)
(*   member           a 1-based place in childrenRet.out                   *)
(*   memberParentRet  Parent(childrenRet.out[member], parentRes)           *)
(*   position         the position argument of ChildPosToCell              *)
(*   childAtRet       ChildPosToCell(position, parentRet.out,              *)
(*                                   Resolution(cell))                     *)
(*   posRet           CellToChildPos(childAtRet.out, parentRes)            *)
(***************************************************************************)
VARIABLES cell, parentRes, parentRet, childrenRet, member, memberParentRet,
          position, childAtRet, posRet, pcHier

(***************************************************************************)
(* The string calls.                                                       *)
(*   index         a 64-bit index value, held as the cell word it is       *)
(*   validRet      Cell(index).IsValid()                                   *)
(*   text          IndexToString(index), which is what MarshalText returns *)
(*   arg           the string passed to the parsing calls                  *)
(*   parsed        IndexFromString(arg)                                    *)
(*   receiver      the Cell that UnmarshalText(arg) is called on           *)
(*   unmarshalErr  the error UnmarshalText returned                        *)
(***************************************************************************)
VARIABLES index, validRet, text, arg, parsed, receiver, unmarshalErr, pcStr

(***************************************************************************)
(* The error translation.                                                  *)
(*   errC      the code the engine returned                                *)
(*   errRet    toErr(errC)                                                 *)
(*   isTarget  the error errRet is compared with                           *)
(*   isRet     errors.Is(errRet, isTarget)                                 *)
(***************************************************************************)
VARIABLES errC, errRet, isTarget, isRet, pcErr

(***************************************************************************)
(* The grid traversal calls.                                               *)
(*   origin           the origin cell                                      *)
(*   radius           the argument k                                       *)
(*   diskRet          GridDisk(origin, radius)                             *)
(*   ringsRet         GridRing(origin, i) for i = 0..radius, in order      *)
(*   ringRet          GridRing(origin, radius)                             *)
(*   ringUnsafeRet    GridRingUnsafe(origin, radius)                       *)
(*   distRet          GridDiskDistances(origin, radius)                    *)
(*   distSafeRet      GridDiskDistancesSafe(origin, radius)                *)
(*   distUnsafeRet    GridDiskDistancesUnsafe(origin, radius)              *)
(*   origins          the origins passed to GridDisksUnsafe                *)
(*   disksRet         GridDisksUnsafe(origins, radius)                     *)
(***************************************************************************)
VARIABLES origin, radius, diskRet, ringsRet, ringRet, ringUnsafeRet, distRet,
          distSafeRet, distUnsafeRet, origins, disksRet

(***************************************************************************)
(* The calls on a pair of cells.                                           *)
(*   pcLine          which calls are made: "path", "edge" or "sides"       *)
(*   cellA, cellB    the two cells                                         *)
(*   distanceRet     GridDistance(cellA, cellB)                            *)
(*   pathRet         GridPath(cellA, cellB)                                *)
(*   neighborRets    IsNeighbor of each cell of pathRet.out and the next   *)
(*   edgeRet         cellA.DirectedEdge(cellB)                             *)
(*   edgeValidRet    edgeRet.out.IsValid()                                 *)
(*   edgeOriginRet   edgeRet.out.Origin()                                  *)
(*   edgeDestRet     edgeRet.out.Destination()                             *)
(*   edgeCellsRet    edgeRet.out.Cells()                                   *)
(*   cellAsEdgeRet   DirectedEdge(cellA).IsValid()                         *)
(*   edgesRet        cellA.DirectedEdges()                                 *)
(*   vertexesRet     CellToVertexes(cellA)                                 *)
(***************************************************************************)
VARIABLES pcLine, cellA, cellB, distanceRet, pathRet, neighborRets, edgeRet,
          edgeValidRet, edgeOriginRet, edgeDestRet, edgeCellsRet,
          cellAsEdgeRet, edgesRet, vertexesRet

(***************************************************************************)
(* The cell counts.                                                        *)
(*   resA, resB    two resolutions, resA below resB                        *)
(*   numA, numB    NumCells(resA) and NumCells(resB), <<>> before the call *)
(***************************************************************************)
VARIABLES resA, resB, numA, numB

(***************************************************************************)
(* The conversion of a buffer.                                             *)
(*   buffer        the buffer chs handed to cellsFromC                     *)
(*   pruneArg      its flag prune                                          *)
(*   refitArg      its flag refit                                          *)
(*   fromCRet      cellsFromC(buffer, pruneArg, refitArg)                  *)
(***************************************************************************)
VARIABLES buffer, pruneArg, refitArg, fromCRet

(***************************************************************************)
(* The unmarshalling of a text into a receiver that holds a value.         *)
(*   heldCell      the Cell the receiver holds before the call             *)
(*   heldVertex    the Vertex the receiver holds before the call           *)
(*   textArg       the text                                                *)
(*   cellAfter     the Cell receiver after UnmarshalText(textArg), and the *)
(*                 error returned                                          *)
(*   vertexAfter   the same for the Vertex receiver                        *)
(***************************************************************************)
VARIABLES heldCell, heldVertex, textArg, cellAfter, vertexAfter

(***************************************************************************)
(* The polygon calls.                                                      *)
(*   geoPolygon, polyRes   the polygon and the resolution of the calls     *)
(*   fillOut               the outcome of PolygonToCells                   *)
(*   nextMode, modeOuts    the outcomes of PolygonToCellsExperimental      *)
(*                         without a maximum, mode after mode              *)
(*   cappedMode, maxNumCellsArg, cappedOut                                 *)
(*                         the mode, the variadic maxNumCellsReturn and    *)
(*                         the outcome of one more call                    *)
(***************************************************************************)
VARIABLES geoPolygon, polyRes, fillOut, nextMode, modeOuts, cappedMode,
          maxNumCellsArg, cappedOut

(***************************************************************************)
(* The outline call.                                                       *)
(*   cellSet          the list of cells of the call                        *)
(*   multiPolygonOut  what CellsToMultiPolygon returns for it              *)
(***************************************************************************)
VARIABLES cellSet, multiPolygonOut

(***************************************************************************)
(* Concurrent calls.                                                       *)
(*   memory    the buffers the calls have made, by their addresses         *)
(*   errTable  the package variable errMap                                 *)
(*   threads   for each thread its call of GridDisk: the arguments, the    *)
(*             position pc in the call, the address out of its buffer, the *)
(*             engine's code errC, the positions i and n of the loop of    *)
(*             cellsFromC, and the error it returns                        *)
(***************************************************************************)
VARIABLES memory, errTable, threads

compactVars == <<in, target, uncompactRet, compactRet, roundTripRet, pcCompact>>

hierVars ==
    <<cell, parentRes, parentRet, childrenRet, member, memberParentRet,
      position, childAtRet, posRet, pcHier>>

strVars == <<index, validRet, text, arg, parsed, receiver, unmarshalErr, pcStr>>

errVars == <<errC, errRet, isTarget, isRet, pcErr>>

gridVars ==
    <<origin, radius, diskRet, ringsRet, ringRet, ringUnsafeRet, distRet,
      distSafeRet, distUnsafeRet, origins, disksRet>>

lineVars ==
    <<pcLine, cellA, cellB, distanceRet, pathRet, neighborRets, edgeRet,
      edgeValidRet, edgeOriginRet, edgeDestRet, edgeCellsRet, cellAsEdgeRet,
      edgesRet, vertexesRet>>

numVars == <<resA, resB, numA, numB>>

bufVars == <<buffer, pruneArg, refitArg, fromCRet>>

textVars == <<heldCell, heldVertex, textArg, cellAfter, vertexAfter>>

concVars == <<memory, errTable, threads>>

outlineVars == <<cellSet, multiPolygonOut>>

polyVars ==
    <<geoPolygon, polyRes, fillOut, nextMode, modeOuts, cappedMode,
      maxNumCellsArg, cappedOut>>

vars == <<compactVars, hierVars, strVars, errVars, gridVars, lineVars, numVars, bufVars, textVars, polyVars, outlineVars, concVars>>

\* a call of Parent, ChildPosToCell or CellToChildPos that has not been made
NoCell == [out |-> H3_NULL, err |-> "none"]

NoPos == [out |-> 0, err |-> "none"]

IdleHier ==
    /\ cell = H3_NULL
    /\ parentRes = 0
    /\ parentRet = NoCell
    /\ childrenRet = NoCall
    /\ member = 0
    /\ memberParentRet = NoCell
    /\ position = 0
    /\ childAtRet = NoCell
    /\ posRet = NoPos
    /\ pcHier = "idle"

IdleStr ==
    /\ index = H3_NULL
    /\ validRet = FALSE
    /\ text = <<>>
    /\ arg = <<>>
    /\ parsed = uint64OfCell(H3_NULL)
    /\ receiver = H3_NULL
    /\ unmarshalErr = "none"
    /\ pcStr = "idle"

IdleErr ==
    /\ errC = 0
    /\ errRet = "none"
    /\ isTarget = "none"
    /\ isRet = FALSE
    /\ pcErr = "idle"

IdleGrid ==
    /\ origin = H3_NULL
    /\ radius = 0
    /\ diskRet = NoCall
    /\ ringsRet = <<>>
    /\ ringRet = NoCall
    /\ ringUnsafeRet = NoCall
    /\ distRet = NoCall
    /\ distSafeRet = NoCall
    /\ distUnsafeRet = NoCall
    /\ origins = <<>>
    /\ disksRet = NoCall

\* a call with a boolean result that has not been made
NoBool == [out |-> FALSE, err |-> "none"]

IdleLine ==
    /\ pcLine = "idle"
    /\ cellA = H3_NULL
    /\ cellB = H3_NULL
    /\ distanceRet = NoPos
    /\ pathRet = NoCall
    /\ neighborRets = NoCall
    /\ edgeRet = NoCell
    /\ edgeValidRet = NoBool
    /\ edgeOriginRet = NoCell
    /\ edgeDestRet = NoCell
    /\ edgeCellsRet = NoCall
    /\ cellAsEdgeRet = NoBool
    /\ edgesRet = NoCall
    /\ vertexesRet = NoCall

IdleNum ==
    /\ resA = 0
    /\ resB = 0
    /\ numA = <<>>
    /\ numB = <<>>

IdleBuf ==
    /\ buffer = <<>>
    /\ pruneArg = FALSE
    /\ refitArg = FALSE
    /\ fromCRet = NoCall

\* an UnmarshalText that has not been called
NoUnmarshal == [c |-> H3_NULL, err |-> "none"]

IdleText ==
    /\ heldCell = H3_NULL
    /\ heldVertex = H3_NULL
    /\ textArg = <<>>
    /\ cellAfter = NoUnmarshal
    /\ vertexAfter = NoUnmarshal

IdlePoly ==
    /\ geoPolygon = [GeoLoop |-> <<>>, Holes |-> <<>>]
    /\ polyRes = 0
    /\ fillOut = NoOutcome
    /\ nextMode = 0
    /\ modeOuts = <<>>
    /\ cappedMode = 0
    /\ maxNumCellsArg = <<>>
    /\ cappedOut = NoOutcome

IdleOutline ==
    /\ cellSet = <<>>
    /\ multiPolygonOut = NoCall

IdleConc ==
    /\ memory = <<>>
    /\ errTable = errMap
    /\ threads = <<>>

IdleCompact ==
    /\ in = <<>>
    /\ target = 0
    /\ uncompactRet = NoCall
    /\ compactRet = NoCall
    /\ roundTripRet = NoCall
    /\ pcCompact = "idle"

InitCompact ==
    /\ in \in InputLists
    /\ target = 0
    /\ uncompactRet = NoCall
    /\ compactRet = NoCall
    /\ roundTripRet = NoCall
    /\ pcCompact = "start"
    /\ IdleHier /\ IdleStr /\ IdleErr /\ IdleGrid /\ IdleLine /\ IdleNum /\ IdleBuf /\ IdleText /\ IdlePoly /\ IdleOutline /\ IdleConc

CallUncompactCells ==
    /\ pcCompact = "start"
    /\ \E res \in TargetResolutions(in) :
        /\ target' = res
        /\ uncompactRet' = UncompactCells(in, res)
    /\ pcCompact' = "uncompacted"
    /\ UNCHANGED <<in, compactRet, roundTripRet>>
    /\ UNCHANGED <<hierVars, strVars, errVars, gridVars, lineVars, numVars, bufVars, textVars, polyVars, outlineVars, concVars>>

CallCompactCells ==
    /\ pcCompact = "uncompacted"
    /\ compactRet' = CompactCells(in)
    /\ pcCompact' = "compacted"
    /\ UNCHANGED <<in, target, uncompactRet, roundTripRet>>
    /\ UNCHANGED <<hierVars, strVars, errVars, gridVars, lineVars, numVars, bufVars, textVars, polyVars, outlineVars, concVars>>

\* the compacted list is passed on when CompactCells returned one
CallUncompactCompacted ==
    /\ pcCompact = "compacted"
    /\ ~compactRet.panicked
    /\ compactRet.err = "nil"
    /\ roundTripRet' = UncompactCells(compactRet.out, target)
    /\ pcCompact' = "done"
    /\ UNCHANGED <<in, target, uncompactRet, compactRet>>
    /\ UNCHANGED <<hierVars, strVars, errVars, gridVars, lineVars, numVars, bufVars, textVars, polyVars, outlineVars, concVars>>

NextCompact == CallUncompactCells \/ CallCompactCells \/ CallUncompactCompacted

SpecCompact == InitCompact /\ [][NextCompact]_vars

CompactCalled == pcCompact \in {"compacted", "done"}

\* in is a duplicate-free list of valid cells of resolution r, and target is
\* a resolution from r to MaxResolution
InverseCase(r) ==
    /\ CompactCalled
    /\ DuplicateFree(in)
    /\ UniformAt(in, r)
    /\ r <= target
    /\ target <= MaxResolution

\* both ways of expanding return, and return the same set of cells
InverseOutcome ==
    /\ ~uncompactRet.panicked /\ uncompactRet.err = "nil"
    /\ ~compactRet.panicked /\ compactRet.err = "nil"
    /\ pcCompact = "done" =>
        /\ ~roundTripRet.panicked /\ roundTripRet.err = "nil"
        /\ Range(roundTripRet.out) = Range(uncompactRet.out)

\* C1: for every duplicate-free set S of valid cells at one resolution r and
\* every target resolution r' with r <= r' <= 15,
\* UncompactCells(CompactCells(S), r') and UncompactCells(S, r') are equal
\* as sets.
C1_CompactionInverse ==
    \A r \in 0..MaxResolution : InverseCase(r) => InverseOutcome

\* C1 on the lists that hold at least one cell
C1_InverseOnNonEmpty ==
    \A r \in 0..MaxResolution : (InverseCase(r) /\ in # <<>>) => InverseOutcome

\* C1: its set S is empty, and both calls on it end in a runtime panic
C1_EmptySetPanics ==
    /\ pcCompact = "compacted"
    /\ in = <<>>
    /\ InverseCase(0)
    /\ uncompactRet.panicked
    /\ compactRet.panicked

\* the cells p of which list is exactly Children(p, r), r the resolution of
\* the cells of list
ListedParents(list) ==
    IF list = <<>> \/ ~IsValid(list[1]) THEN {}
    ELSE LET r == Resolution(list[1])
         IN {p \in {cellToParent(list[1], k).out : k \in 0..r} :
                /\ cellToChildrenSize(p, r).out = Len(list)
                /\ Children(p, r) = Ret(list, "nil")}

\* what CompactCells returns on Children(p, r): the one-element list [p];
\* n is the number of immediate children of a pentagon
MergesToParent(n) ==
    CompactCalled =>
        \A p \in ListedParents(in) :
            /\ compactRet = Ret(<<p>>, "nil")
            /\ Resolution(in[1]) = Resolution(p) + 1 =>
                   Len(in) = IF isPentagon(p) THEN n ELSE NUM_DIGITS

\* the children of the base cells are the cells NumCells counts at
\* resolution 1, which fixes the number of children of a pentagon
ChildrenMatchNumCells ==
    CompactCalled =>
        \A p \in ListedParents(in) :
            (isPentagon(p) /\ Resolution(in[1]) = Resolution(p) + 1) =>
                (NumBaseCells - NumPentagons) * NUM_DIGITS
                    + NumPentagons * Len(in) = smallInt(NumCells(1))

\* C2 as amended: for every cell p and every resolution r >= resolution(p),
\* CompactCells applied to Children(p, r) returns exactly [p], where a
\* hexagon parent has seven immediate children and a pentagon parent six.
C2_ChildrenCompactToParent == MergesToParent(NUM_DIGITS - 1)

\* C2 as stated: for every cell p and every resolution r >= resolution(p),
\* CompactCells applied to Children(p, r) returns exactly [p], where a
\* hexagon parent has seven immediate children and a pentagon parent five.
C2_FivePentagonChildren == MergesToParent(NUM_DIGITS - 2)

\* C2: the descendants of a pentagon two resolutions below it were merged,
\* through two levels, into the pentagon
C2_PentagonMergedTwice ==
    /\ pcCompact = "compacted"
    /\ \E p \in ListedParents(in) :
        /\ isPentagon(p)
        /\ Resolution(in[1]) = Resolution(p) + 2
        /\ compactRet.out = <<p>>

ExceedsTarget(list, res) ==
    \E i \in 1..Len(list) : Resolution(list[i]) > res

\* C4: UncompactCells(in, res) returns a nil result together with the
\* ResolutionMismatch error whenever some input cell has a resolution
\* greater than res, res = -1 included; nothing of an expansion is returned.
C4_MismatchReturnsNil ==
    (pcCompact # "start" /\ ExceedsTarget(in, target)) =>
        uncompactRet = RetNil("ErrRsolutionMismatch")

\* C4: a list of several cells was refused at the resolution -1
C4_NegativeTargetRefused ==
    /\ pcCompact = "uncompacted"
    /\ Len(in) > 1
    /\ target = -1
    /\ ExceedsTarget(in, target)
    /\ uncompactRet = RetNil("ErrRsolutionMismatch")

(***************************************************************************)
(* The hierarchy calls, on the cells of a base cell and up to MaxSpan      *)
(* digits.                                                                 *)
(***************************************************************************)
HierDigits == {CENTER_DIGIT, K_AXES_DIGIT, NUM_DIGITS - 1}

HierCells ==
    {c \in {MkCell(bc, ds) :
                bc \in ModelBaseCells,
                ds \in UNION {[1..n -> HierDigits] : n \in 0..MaxSpan}} :
        IsValid(c)}

InitHier ==
    /\ cell \in HierCells
    /\ parentRes = 0
    /\ parentRet = NoCell
    /\ childrenRet = NoCall
    /\ member = 0
    /\ memberParentRet = NoCell
    /\ position = 0
    /\ childAtRet = NoCell
    /\ posRet = NoPos
    /\ pcHier = "start"
    /\ IdleCompact /\ IdleStr /\ IdleErr /\ IdleGrid /\ IdleLine /\ IdleNum /\ IdleBuf /\ IdleText /\ IdlePoly /\ IdleOutline /\ IdleConc

CallParent ==
    /\ pcHier = "start"
    /\ \E r \in -1..(Resolution(cell) + 1) :
        /\ parentRes' = r
        /\ parentRet' = Parent(cell, r)
    /\ pcHier' = "parent"
    /\ UNCHANGED <<cell, childrenRet, member, memberParentRet, position,
                   childAtRet, posRet>>
    /\ UNCHANGED <<compactVars, strVars, errVars, gridVars, lineVars, numVars, bufVars, textVars, polyVars, outlineVars, concVars>>

\* the descendants of the parent at the resolution of cell
CallChildren ==
    /\ pcHier = "parent"
    /\ parentRet.err = "nil"
    /\ childrenRet' = Children(parentRet.out, Resolution(cell))
    /\ pcHier' = "children"
    /\ UNCHANGED <<cell, parentRes, parentRet, member, memberParentRet,
                   position, childAtRet, posRet>>
    /\ UNCHANGED <<compactVars, strVars, errVars, gridVars, lineVars, numVars, bufVars, textVars, polyVars, outlineVars, concVars>>

CallParentOfMember ==
    /\ pcHier = "children"
    /\ ~childrenRet.panicked
    /\ childrenRet.err = "nil"
    /\ \E k \in 1..Len(childrenRet.out) :
        /\ member' = k
        /\ memberParentRet' = Parent(childrenRet.out[k], parentRes)
    /\ pcHier' = "member"
    /\ UNCHANGED <<cell, parentRes, parentRet, childrenRet, position,
                   childAtRet, posRet>>
    /\ UNCHANGED <<compactVars, strVars, errVars, gridVars, lineVars, numVars, bufVars, textVars, polyVars, outlineVars, concVars>>

\* the positions tried: those of the children, one below and one above
CallChildPosToCell ==
    /\ pcHier = "children"
    /\ ~childrenRet.panicked
    /\ childrenRet.err = "nil"
    /\ \E i \in -1..Len(childrenRet.out) :
        /\ position' = i
        /\ childAtRet' = ChildPosToCell(i, parentRet.out, Resolution(cell))
    /\ pcHier' = "childAt"
    /\ UNCHANGED <<cell, parentRes, parentRet, childrenRet, member,
                   memberParentRet, posRet>>
    /\ UNCHANGED <<compactVars, strVars, errVars, gridVars, lineVars, numVars, bufVars, textVars, polyVars, outlineVars, concVars>>

CallCellToChildPos ==
    /\ pcHier = "childAt"
    /\ childAtRet.err = "nil"
    /\ posRet' = CellToChildPos(childAtRet.out, parentRes)
    /\ pcHier' = "pos"
    /\ UNCHANGED <<cell, parentRes, parentRet, childrenRet, member,
                   memberParentRet, position, childAtRet>>
    /\ UNCHANGED <<compactVars, strVars, errVars, gridVars, lineVars, numVars, bufVars, textVars, polyVars, outlineVars, concVars>>

NextHier ==
    \/ CallParent
    \/ CallChildren
    \/ CallParentOfMember
    \/ CallChildPosToCell
    \/ CallCellToChildPos

SpecHier == InitHier /\ [][NextHier]_vars

ChildrenCalled == pcHier \in {"children", "member", "childAt", "pos"}

\* C5: for every valid cell c of resolution n and every r with 0 <= r <= n,
\* Parent(c, r) keeps c's base cell and first r digits, c is a member of
\* Children(Parent(c, r), n), and every member x of Children(Parent(c, r), n)
\* satisfies Parent(x, r) = Parent(c, r).
C5_ParentChildrenInverse ==
    /\ (pcHier \notin {"idle", "start"} /\ IsValid(cell)
            /\ 0 <= parentRes /\ parentRes <= Resolution(cell)) =>
        /\ parentRet.err = "nil"
        /\ Resolution(parentRet.out) = parentRes
        /\ getBaseCellNumber(parentRet.out) = getBaseCellNumber(cell)
        /\ \A i \in 1..parentRes : parentRet.out.digits[i] = cell.digits[i]
    /\ ChildrenCalled =>
        /\ ~childrenRet.panicked
        /\ childrenRet.err = "nil"
        /\ \E k \in 1..Len(childrenRet.out) : childrenRet.out[k] = cell
    /\ pcHier = "member" => memberParentRet = parentRet

\* C5: a sibling of c two resolutions below a pentagon was taken back to it
C5_MemberTakenToPentagon ==
    /\ pcHier = "member"
    /\ isPentagon(parentRet.out)
    /\ Resolution(cell) = parentRes + 2
    /\ childrenRet.out[member] # cell
    /\ memberParentRet.out = parentRet.out

\* C6: for every valid parent p and child resolution r >= resolution(p),
\* with N = len(Children(p, r)), ChildPosToCell(i, p, r) succeeds for exactly
\* the positions 0 <= i < N, equals Children(p, r)[i], and
\* CellToChildPos(ChildPosToCell(i, p, r), resolution(p)) = i; pentagon
\* parents included.
C6_ChildPosBijection ==
    pcHier \in {"childAt", "pos"} =>
        LET N == Len(childrenRet.out)
        IN /\ childAtRet.err = "nil" <=> (0 <= position /\ position < N)
           /\ childAtRet.err = "nil" =>
                  childAtRet.out = childrenRet.out[position + 1]
           /\ pcHier = "pos" => posRet = [out |-> position, err |-> "nil"]

\* C6: the last position below a pentagon, past its missing subtree, was
\* mapped to the last child and back
C6_LastPentagonPosition ==
    /\ pcHier = "pos"
    /\ isPentagon(parentRet.out)
    /\ Resolution(cell) = parentRes + 2
    /\ position = Len(childrenRet.out) - 1
    /\ childAtRet.out = childrenRet.out[Len(childrenRet.out)]
    /\ posRet.out = position

(***************************************************************************)
(* The string calls, on the two cells of the tests, on the words that      *)
(* differ from one of them in one field, on 0 and on the word of all ones. *)
(***************************************************************************)
validCell == MkCell(6, <<6, 5, 3, 3, 0>>)

pentagonCell == MkCell(14, <<0, 0>>)

\* the words that differ from h in one field
Corruptions(h) ==
    {[h EXCEPT !.hi = 1]}
    \cup {[h EXCEPT !.mode = m] : m \in 0..15}
    \cup {[h EXCEPT !.rsv = v] : v \in 0..7}
    \cup {[h EXCEPT !.res = r] : r \in 0..MaxResolution}
    \cup {[h EXCEPT !.bc = b] :
              b \in {0, Min(PentagonBaseCells), NumBaseCells - 1,
                     NumBaseCells, 127}}
    \cup {[h EXCEPT !.digits[k] = d] :
              k \in 1..MaxResolution, d \in 0..INVALID_DIGIT}

IndexValues ==
    {H3_NULL, AllOnes} \cup Corruptions(validCell) \cup Corruptions(pentagonCell)

Zeros(n) == [k \in 1..n |-> "0"]

Prefixes == {<<>>, <<"0", "x">>, <<"0", "X">>}

\* strings that are not hexadecimal text, and 2^64 in hexadecimal
RawStrings ==
    {<<>>, <<"o", "o", "p", "s">>, <<"0", "x">>, <<"x">>, <<"g">>,
     <<"-", "1">>, <<"+", "1">>, <<"0", "x", "0", "x", "1">>,
     <<"1">> \o Zeros(bitSize \div 4),
     <<"0", "x", "1">> \o Zeros(bitSize \div 4)}

ToUpper(s) ==
    [k \in 1..Len(s) |->
        IF IndexOf(Letters, s[k]) > 0 THEN UpperLetters[IndexOf(Letters, s[k])]
        ELSE s[k]]

\* the strings parsed for txt: txt itself, prefixed, with leading zeros, in
\* upper case, lengthened to seventeen digits, and the raw strings
Arguments(txt) ==
    {pfx \o Zeros(k) \o txt : pfx \in Prefixes, k \in 0..MaxPad}
    \cup {ToUpper(txt), txt \o Zeros((bitSize \div 4) + 1 - Len(txt))}
    \cup RawStrings

InitStr ==
    /\ index \in IndexValues
    /\ validRet = FALSE
    /\ text = <<>>
    /\ arg = <<>>
    /\ parsed = uint64OfCell(H3_NULL)
    /\ receiver = H3_NULL
    /\ unmarshalErr = "none"
    /\ pcStr = "start"
    /\ IdleCompact /\ IdleHier /\ IdleErr /\ IdleGrid /\ IdleLine /\ IdleNum /\ IdleBuf /\ IdleText /\ IdlePoly /\ IdleOutline /\ IdleConc

CallIsValid ==
    /\ pcStr = "start"
    /\ validRet' = IsValid(index)
    /\ pcStr' = "checked"
    /\ UNCHANGED <<index, text, arg, parsed, receiver, unmarshalErr>>
    /\ UNCHANGED <<compactVars, hierVars, errVars, gridVars, lineVars, numVars, bufVars, textVars, polyVars, outlineVars, concVars>>

CallMarshalText ==
    /\ pcStr = "checked"
    /\ text' = MarshalText(index).text
    /\ pcStr' = "text"
    /\ UNCHANGED <<index, validRet, arg, parsed, receiver, unmarshalErr>>
    /\ UNCHANGED <<compactVars, hierVars, errVars, gridVars, lineVars, numVars, bufVars, textVars, polyVars, outlineVars, concVars>>

CallIndexFromString ==
    /\ pcStr = "text"
    /\ \E s \in Arguments(text) :
        /\ arg' = s
        /\ parsed' = IndexFromString(s)
    /\ pcStr' = "parsed"
    /\ UNCHANGED <<index, validRet, text, receiver, unmarshalErr>>
    /\ UNCHANGED <<compactVars, hierVars, errVars, gridVars, lineVars, numVars, bufVars, textVars, polyVars, outlineVars, concVars>>

CallUnmarshalText ==
    /\ pcStr = "parsed"
    /\ receiver' = UnmarshalText(arg).c
    /\ unmarshalErr' = UnmarshalText(arg).err
    /\ pcStr' = "unmarshaled"
    /\ UNCHANGED <<index, validRet, text, arg, parsed>>
    /\ UNCHANGED <<compactVars, hierVars, errVars, gridVars, lineVars, numVars, bufVars, textVars, polyVars, outlineVars, concVars>>

NextStr ==
    \/ CallIsValid
    \/ CallMarshalText
    \/ CallIndexFromString
    \/ CallUnmarshalText

SpecStr == InitStr /\ [][NextStr]_vars

\* C7: IsValid is false for index 0 and true only when the mode field is
\* 'cell', the resolution is in 0..15, the base cell is in 0..121, every
\* digit at a level <= resolution is in 0..6, every digit past the resolution
\* is the unused digit 7, and no forbidden digit occurs below a pentagon.
C7_IsValidStructural ==
    pcStr \notin {"idle", "start"} =>
        /\ index = H3_NULL => ~validRet
        /\ validRet =>
            /\ index.mode = H3_CELL_MODE
            /\ index.res \in 0..MaxResolution
            /\ index.bc \in 0..(NumBaseCells - 1)
            /\ \A k \in 1..index.res : index.digits[k] \in 0..(NUM_DIGITS - 1)
            /\ \A k \in (index.res + 1)..MaxResolution :
                   index.digits[k] = INVALID_DIGIT
            /\ \A k \in 1..index.res :
                   isPentagon(cellToParent(index, k - 1).out) =>
                       index.digits[k] # K_AXES_DIGIT

\* C7: a cell below a pentagon, off its center, was found valid
C7_OffCenterPentagonCellValid ==
    /\ pcStr = "checked"
    /\ validRet
    /\ isBaseCellPentagon(index.bc)
    /\ index.res = 2
    /\ index.digits[1] = CENTER_DIGIT
    /\ index.digits[2] \notin {CENTER_DIGIT, K_AXES_DIGIT}

HexChars == {Digits[k] : k \in 1..10} \cup {Letters[k] : k \in 1..6}

AnyCaseHexChars == HexChars \cup {UpperLetters[k] : k \in 1..6}

Parsed == pcStr \in {"parsed", "unmarshaled"}

\* C8: for every 64-bit index value i, IndexToString(i) is lowercase
\* hexadecimal with no "0x" prefix and IndexFromString(IndexToString(i)) = i;
\* the same text with a leading "0x" parses to the same value, and for every
\* valid cell c UnmarshalText of MarshalText(c), with or without the prefix,
\* sets the receiver to c and returns no error.
C8_StringRoundTrip ==
    /\ pcStr \in {"text", "parsed", "unmarshaled"} =>
        /\ text = IndexToString(uint64OfCell(index))
        /\ text # <<>>
        /\ \A k \in 1..Len(text) : text[k] \in HexChars
    /\ (Parsed /\ arg \in {text, <<"0", "x">> \o text}) =>
        parsed = uint64OfCell(index)
    /\ (pcStr = "unmarshaled" /\ arg \in {text, <<"0", "x">> \o text}
            /\ IsValid(index)) =>
        /\ receiver = index
        /\ unmarshalErr = "nil"

\* C8: the text of validCell with the prefix was unmarshaled to validCell
C8_PrefixedTextUnmarshaled ==
    /\ pcStr = "unmarshaled"
    /\ index = validCell
    /\ arg = <<"0", "x">> \o text
    /\ receiver = validCell
    /\ unmarshalErr = "nil"

\* s without a leading "0x", in either case
WithoutPrefix(s) ==
    IF Len(s) >= 2 /\ SubSeq(s, 1, 2) \in {<<"0", "x">>, <<"0", "X">>}
    THEN SubSeq(s, 3, Len(s))
    ELSE s

\* t is hexadecimal text
IsHex(t) == t # <<>> /\ \A k \in 1..Len(t) : t[k] \in AnyCaseHexChars

\* t is the hexadecimal text of a value that fits in 64 bits
FitsWord(t) ==
    /\ IsHex(t)
    /\ \A k \in 1..(Len(t) - (bitSize \div 4)) : t[k] = "0"

ZeroWord == uint64OfCell(H3_NULL)

\* C9: IndexFromString, CellFromString and VertexFromString return 0 for
\* every input that is not, after removal of an optional "0x" prefix, the
\* hexadecimal text of a value that fits in 64 bits: the empty string,
\* non-hex characters, and hex text too long to fit in 64 bits.
C9_MalformedParsesToZero ==
    (Parsed /\ ~FitsWord(WithoutPrefix(arg))) =>
        /\ parsed = ZeroWord
        /\ CellFromString(arg) = H3_NULL
        /\ VertexFromString(arg) = H3_NULL

\* C9 on the inputs that are not hexadecimal text at all
C9_NonHexParsesToZero ==
    (Parsed /\ ~IsHex(WithoutPrefix(arg))) =>
        /\ parsed = ZeroWord
        /\ CellFromString(arg) = H3_NULL
        /\ VertexFromString(arg) = H3_NULL

\* C9: seventeen hexadecimal digits, the first of them 1, were parsed to the
\* word of all ones
C9_TooLongParsesToAllOnes ==
    /\ pcStr = "parsed"
    /\ arg = <<"1">> \o Zeros(bitSize \div 4)
    /\ ~FitsWord(WithoutPrefix(arg))
    /\ parsed = uint64OfCell(AllOnes)

(***************************************************************************)
(* The error translation, on the codes 0..MaxCode and on the code of the   *)
(* tests that the table does not hold.                                     *)
(***************************************************************************)
ErrorNames == ({errMap[c] : c \in DOMAIN errMap} \ {"nil"}) \cup {"ErrUnknown"}

InitErr ==
    /\ errC \in 0..MaxCode \cup {UnknownCode}
    /\ errRet = "none"
    /\ isTarget = "none"
    /\ isRet = FALSE
    /\ pcErr = "start"
    /\ IdleCompact /\ IdleHier /\ IdleStr /\ IdleGrid /\ IdleLine /\ IdleNum /\ IdleBuf /\ IdleText /\ IdlePoly /\ IdleOutline /\ IdleConc

CallToErr ==
    /\ pcErr = "start"
    /\ errRet' = toErr(errC)
    /\ pcErr' = "translated"
    /\ UNCHANGED <<errC, isTarget, isRet>>
    /\ UNCHANGED <<compactVars, hierVars, strVars, gridVars, lineVars, numVars, bufVars, textVars, polyVars, outlineVars, concVars>>

CallErrorsIs ==
    /\ pcErr = "translated"
    /\ \E t \in ErrorNames :
        /\ isTarget' = t
        /\ isRet' = ErrorsIs(errRet, t)
    /\ pcErr' = "compared"
    /\ UNCHANGED <<errC, errRet>>
    /\ UNCHANGED <<compactVars, hierVars, strVars, gridVars, lineVars, numVars, bufVars, textVars, polyVars, outlineVars, concVars>>

NextErr == CallToErr \/ CallErrorsIs

SpecErr == InitErr /\ [][NextErr]_vars

\* the codes 0 and 9, which the table holds
KnownCodesTranslated ==
    /\ errC = E_SUCCESS => errRet = "nil"
    /\ errC = E_PENTAGON => errRet = "ErrPentagon"

\* C10: toErr maps engine code 0 to nil, code 9 to ErrPentagon, and every
\* code that is not in the table (e.g. 999) to an error that matches
\* ErrFailed under errors.Is.
C10_ToErrTranslates ==
    pcErr \in {"translated", "compared"} =>
        /\ KnownCodesTranslated
        /\ errC \notin DOMAIN errMap => ErrorsIs(errRet, "ErrFailed")
        /\ (pcErr = "compared" /\ errC \notin DOMAIN errMap
                /\ isTarget = "ErrFailed") => isRet

\* C10 on the codes of the table
C10_KnownCodes ==
    pcErr \in {"translated", "compared"} => KnownCodesTranslated

\* C10: the code 999 was translated to ErrUnknown, which is not ErrFailed
C10_UnknownCodeIsErrUnknown ==
    /\ pcErr = "compared"
    /\ errC = UnknownCode
    /\ errRet = "ErrUnknown"
    /\ isTarget = "ErrFailed"
    /\ ~isRet

(***************************************************************************)
(* The specification of the grid traversal calls: an origin and a k, then  *)
(* each traversal once, in any order.                                      *)
(***************************************************************************)
\* the hexagon origins: validCell and its six neighbors
HexOrigins ==
    {c \in GridPatch : ijDistance(PlaceOf[validCell], PlaceOf[c]) <= 1}

\* the origin and k of a call: a hexagon whose disk is on the modelled
\* lattice, the pentagon with its ring of neighbors, or Cell(-1)
GridInputs ==
    {<<c, n>> \in HexOrigins \X (-1..MaxK) : n < 0 \/ DiskInPatch(c, n)}
        \cup ({pentagonCell} \X (-1..Min({1, MaxK})))
        \cup ({AllOnes} \X (0..MaxK))

\* the lists of origins of a call of GridDisksUnsafe
OriginLists(c, n) ==
    {<<>>, <<c>>}
        \cup (IF n < 0 \/ DiskInPatch(validCell, n)
              THEN {<<validCell, c>>, <<c, validCell>>} ELSE {})
        \cup (IF n >= 0 /\ n <= 1
              THEN {<<pentagonCell, AllOnes>>, <<AllOnes, pentagonCell>>,
                    <<validCell, pentagonCell>>, <<validCell, AllOnes>>}
              ELSE {})

InitGrid ==
    /\ \E input \in GridInputs : origin = input[1] /\ radius = input[2]
    /\ diskRet = NoCall
    /\ ringsRet = <<>>
    /\ ringRet = NoCall
    /\ ringUnsafeRet = NoCall
    /\ distRet = NoCall
    /\ distSafeRet = NoCall
    /\ distUnsafeRet = NoCall
    /\ origins = <<>>
    /\ disksRet = NoCall
    /\ IdleCompact /\ IdleHier /\ IdleStr /\ IdleErr /\ IdleLine /\ IdleNum /\ IdleBuf /\ IdleText /\ IdlePoly /\ IdleOutline /\ IdleConc

CallGridDisk ==
    /\ diskRet = NoCall
    /\ diskRet' = GridDisk(origin, radius)
    /\ UNCHANGED <<origin, radius, ringsRet, ringRet, ringUnsafeRet, distRet,
                   distSafeRet, distUnsafeRet, origins, disksRet>>
    /\ UNCHANGED <<compactVars, hierVars, strVars, errVars, lineVars, numVars, bufVars, textVars, polyVars, outlineVars, concVars>>

\* the rings 0..radius, one call of GridRing each
CallGridRings ==
    /\ ringsRet = <<>>
    /\ radius >= 0
    /\ ringsRet' = [i \in 1..(radius + 1) |-> GridRing(origin, i - 1)]
    /\ UNCHANGED <<origin, radius, diskRet, ringRet, ringUnsafeRet, distRet,
                   distSafeRet, distUnsafeRet, origins, disksRet>>
    /\ UNCHANGED <<compactVars, hierVars, strVars, errVars, lineVars, numVars, bufVars, textVars, polyVars, outlineVars, concVars>>

CallGridRing ==
    /\ ringRet = NoCall
    /\ ringRet' = GridRing(origin, radius)
    /\ UNCHANGED <<origin, radius, diskRet, ringsRet, ringUnsafeRet, distRet,
                   distSafeRet, distUnsafeRet, origins, disksRet>>
    /\ UNCHANGED <<compactVars, hierVars, strVars, errVars, lineVars, numVars, bufVars, textVars, polyVars, outlineVars, concVars>>

CallGridRingUnsafe ==
    /\ ringUnsafeRet = NoCall
    /\ ringUnsafeRet' = GridRingUnsafe(origin, radius)
    /\ UNCHANGED <<origin, radius, diskRet, ringsRet, ringRet, distRet,
                   distSafeRet, distUnsafeRet, origins, disksRet>>
    /\ UNCHANGED <<compactVars, hierVars, strVars, errVars, lineVars, numVars, bufVars, textVars, polyVars, outlineVars, concVars>>

CallGridDiskDistances ==
    /\ distRet = NoCall
    /\ distRet' = GridDiskDistances(origin, radius)
    /\ UNCHANGED <<origin, radius, diskRet, ringsRet, ringRet, ringUnsafeRet,
                   distSafeRet, distUnsafeRet, origins, disksRet>>
    /\ UNCHANGED <<compactVars, hierVars, strVars, errVars, lineVars, numVars, bufVars, textVars, polyVars, outlineVars, concVars>>

CallGridDiskDistancesSafe ==
    /\ distSafeRet = NoCall
    /\ distSafeRet' = GridDiskDistancesSafe(origin, radius)
    /\ UNCHANGED <<origin, radius, diskRet, ringsRet, ringRet, ringUnsafeRet,
                   distRet, distUnsafeRet, origins, disksRet>>
    /\ UNCHANGED <<compactVars, hierVars, strVars, errVars, lineVars, numVars, bufVars, textVars, polyVars, outlineVars, concVars>>

CallGridDiskDistancesUnsafe ==
    /\ distUnsafeRet = NoCall
    /\ distUnsafeRet' = GridDiskDistancesUnsafe(origin, radius)
    /\ UNCHANGED <<origin, radius, diskRet, ringsRet, ringRet, ringUnsafeRet,
                   distRet, distSafeRet, origins, disksRet>>
    /\ UNCHANGED <<compactVars, hierVars, strVars, errVars, lineVars, numVars, bufVars, textVars, polyVars, outlineVars, concVars>>

CallGridDisksUnsafe ==
    /\ disksRet = NoCall
    /\ \E list \in OriginLists(origin, radius) :
           /\ origins' = list
           /\ disksRet' = GridDisksUnsafe(list, radius)
    /\ UNCHANGED <<origin, radius, diskRet, ringsRet, ringRet, ringUnsafeRet,
                   distRet, distSafeRet, distUnsafeRet>>
    /\ UNCHANGED <<compactVars, hierVars, strVars, errVars, lineVars, numVars, bufVars, textVars, polyVars, outlineVars, concVars>>

NextGrid ==
    \/ CallGridDisk
    \/ CallGridRings
    \/ CallGridRing
    \/ CallGridRingUnsafe
    \/ CallGridDiskDistances
    \/ CallGridDiskDistancesSafe
    \/ CallGridDiskDistancesUnsafe
    \/ CallGridDisksUnsafe

SpecGrid == InitGrid /\ [][NextGrid]_vars

(***************************************************************************)
(* C12: GridRing and GridRingUnsafe return a nil slice and ErrDomain for   *)
(* every k < 0, whatever the origin, and for k = 0 and a valid origin they *)
(* return exactly [origin] and no error.                                   *)
(***************************************************************************)
RingOfNegativeOrZero(ret) ==
    /\ radius < 0 => ret = RetNil("ErrDomain")
    /\ radius = 0 /\ IsValid(origin) => ret = Ret(<<origin>>, "nil")

C12_RingNegativeAndZero ==
    /\ ringRet # NoCall => RingOfNegativeOrZero(ringRet)
    /\ ringUnsafeRet # NoCall => RingOfNegativeOrZero(ringUnsafeRet)

\* both rings were asked for with a negative k and both were refused
C12_NegativeRingRefused ==
    /\ radius < 0
    /\ ringRet = RetNil("ErrDomain")
    /\ ringUnsafeRet = RetNil("ErrDomain")

(***************************************************************************)
(* C13: for a valid origin that is not a pentagon and k >= 0, GridDisk and *)
(* the calls GridRing(origin, i), i = 0..k, all succeed; the cells of the  *)
(* disk are the cells of the rings together, no two rings share a cell and *)
(* no cell is listed twice.                                                *)
(***************************************************************************)
HexagonOrigin == IsValid(origin) /\ ~isPentagon(origin)

C13_DiskIsUnionOfRings ==
    (diskRet # NoCall /\ ringsRet # <<>> /\ HexagonOrigin) =>
        /\ diskRet.err = "nil"
        /\ \A i \in 1..Len(ringsRet) : ringsRet[i].err = "nil"
        /\ Range(diskRet.out) =
               UNION {Range(ringsRet[i].out) : i \in 1..Len(ringsRet)}
        /\ \A i, j \in 1..Len(ringsRet) :
               i # j => Range(ringsRet[i].out) \cap Range(ringsRet[j].out) = {}
        /\ DuplicateFree(diskRet.out)
        /\ \A i \in 1..Len(ringsRet) : DuplicateFree(ringsRet[i].out)

\* the disk of radius 2 round validCell and its three rings
C13_ValidCellDiskOfThreeRings ==
    /\ origin = validCell
    /\ radius = 2
    /\ Len(diskRet.out) = 19
    /\ Len(ringsRet) = 3
    /\ Len(ringsRet[3].out) = 12

HexagonsAtDistance ==
    [c \in HexOrigins |-> [d \in 0..MaxK |->
        {h \in GridPatch : ijDistance(PlaceOf[c], PlaceOf[h]) = d}]]

CellsAtDistance(c, d) ==
    IF isPentagon(c)
    THEN (IF d = 0 THEN {c} ELSE Range(pentagonNeighbors(c)))
    ELSE HexagonsAtDistance[c][d]

RingsByDistance(ret) ==
    /\ ret.err = "nil"
    /\ ~ret.isNil
    /\ Len(ret.out) = radius + 1
    /\ ret.out[1] = <<origin>>
    /\ \A i \in 1..Len(ret.out) :
           /\ Range(ret.out[i]) = CellsAtDistance(origin, i - 1)
           /\ DuplicateFree(ret.out[i])
           /\ \A j \in 1..Len(ret.out[i]) : ~IsZero(ret.out[i][j])
    /\ isPentagon(origin) /\ radius = 1 => Len(ret.out[2]) = 5

C15_RingsByDistance ==
    (IsValid(origin) /\ radius >= 0) =>
        /\ distRet # NoCall => RingsByDistance(distRet)
        /\ distSafeRet # NoCall => RingsByDistance(distSafeRet)

\* the rings of a pentagon origin: ring 0 holds the origin and the zero
\* index of the slot the engine left unused
C15_ZeroIndexInRingZero ==
    /\ origin = pentagonCell
    /\ radius = 1
    /\ distRet.err = "nil"
    /\ Len(distRet.out) = 2
    /\ distRet.out[1] = <<pentagonCell, H3_NULL>>
    /\ Len(distRet.out[2]) = 5

\* the same statement for the origins that are not pentagons
C15_HexagonRingsByDistance ==
    (HexagonOrigin /\ radius >= 0) =>
        /\ distRet # NoCall => RingsByDistance(distRet)
        /\ distSafeRet # NoCall => RingsByDistance(distSafeRet)

(***************************************************************************)
(* C16: for a hexagon origin and k >= 0 whose disk meets no pentagon, the  *)
(* safe and the unsafe traversals succeed and return the same rings as     *)
(* sets.  For a pentagon origin GridDiskDistancesUnsafe and                *)
(* GridDisksUnsafe return ErrPentagon for every k >= 0 and GridRingUnsafe  *)
(* returns it for every k >= 1, while GridDiskDistances,                   *)
(* GridDiskDistancesSafe and GridRing succeed.                             *)
(***************************************************************************)
SameRings(a, b) ==
    /\ a.err = "nil" /\ b.err = "nil"
    /\ Len(a.out) = Len(b.out)
    /\ \A i \in 1..Len(a.out) : Range(a.out[i]) = Range(b.out[i])

SafeAndUnsafeAgree ==
    (HexagonOrigin /\ radius >= 0) =>
        /\ distRet # NoCall /\ distUnsafeRet # NoCall =>
               SameRings(distRet, distUnsafeRet)
        /\ distSafeRet # NoCall /\ distUnsafeRet # NoCall =>
               SameRings(distSafeRet, distUnsafeRet)
        /\ ringRet # NoCall /\ ringUnsafeRet # NoCall =>
               /\ ringRet.err = "nil" /\ ringUnsafeRet.err = "nil"
               /\ Range(ringRet.out) = Range(ringUnsafeRet.out)
        /\ diskRet # NoCall /\ disksRet # NoCall /\ origins = <<origin>> =>
               /\ diskRet.err = "nil" /\ disksRet.err = "nil"
               /\ Range(diskRet.out) = Range(disksRet.out[1])

\* the outcomes for a pentagon origin; GridRingUnsafe is looked at from the
\* radius ringFrom on
PentagonOutcomes(ringFrom) ==
    (isPentagon(origin) /\ radius >= 0) =>
        /\ distUnsafeRet # NoCall => distUnsafeRet = RetNil("ErrPentagon")
        /\ ringUnsafeRet # NoCall /\ radius >= ringFrom =>
               ringUnsafeRet.err = "ErrPentagon"
        /\ disksRet # NoCall /\ origins = <<origin>> =>
               disksRet = RetNil("ErrPentagon")
        /\ distRet # NoCall => distRet.err = "nil"
        /\ distSafeRet # NoCall => distSafeRet.err = "nil"
        /\ ringRet # NoCall => ringRet.err = "nil"

C16_SafeAndUnsafe == SafeAndUnsafeAgree /\ PentagonOutcomes(1)

\* the statement with GridRingUnsafe failing for every k >= 0
C16_UnsafeFailsForEveryK == SafeAndUnsafeAgree /\ PentagonOutcomes(0)

\* the pentagon with k = 1: the unsafe traversals refused, the safe ones done
C16_PentagonRefusedByUnsafe ==
    /\ origin = pentagonCell
    /\ radius = 1
    /\ distUnsafeRet = RetNil("ErrPentagon")
    /\ ringUnsafeRet.err = "ErrPentagon"
    /\ disksRet = RetNil("ErrPentagon")
    /\ distRet.err = "nil"
    /\ distSafeRet.err = "nil"
    /\ Len(ringRet.out) = 5

(***************************************************************************)
(* C17: GridDisksUnsafe(origins, k) returns one inner slice per origin, in *)
(* the order of the origins, each the disk of its origin; when the engine  *)
(* fails for any origin it returns a nil outer slice and the error of the  *)
(* first origin, in input order, that fails, and nothing of the disks      *)
(* already made.                                                           *)
(***************************************************************************)
\* the error of the traversal of the one origin c
DiskFailure(c) ==
    toErr(gridDiskUnsafe(c, radius, maxGridDiskSize(radius)).err)

\* the places in origins whose traversal fails
FailingOrigins == {i \in 1..Len(origins) : DiskFailure(origins[i]) # "nil"}

\* the cells within the distance radius of c
CellsWithin(c) == UNION {CellsAtDistance(c, d) : d \in 0..radius}

C17_DisksPerOriginOrFirstError ==
    disksRet # NoCall =>
        /\ ~disksRet.panicked
        /\ FailingOrigins # {} =>
               disksRet = RetNil(DiskFailure(origins[Min(FailingOrigins)]))
        /\ FailingOrigins = {} =>
               /\ disksRet.err = "nil" /\ ~disksRet.isNil
               /\ Len(disksRet.out) = Len(origins)
               /\ \A i \in 1..Len(origins) :
                      /\ Range(disksRet.out[i]) = CellsWithin(origins[i])
                      /\ DuplicateFree(disksRet.out[i])

\* a disk was made for validCell before the pentagon failed: nothing of it
\* is returned
C17_NothingAfterLaterFailure ==
    /\ origins = <<validCell, pentagonCell>>
    /\ radius = 1
    /\ disksRet = RetNil("ErrPentagon")

(***************************************************************************)
(* C11: every error a fallible operation of the wrapper returns is nil or  *)
(* one of the fourteen errors ErrFailed, ErrDomain, ErrLatLngDomain,       *)
(* ErrResolutionDomain, ErrCellInvalid, ErrDirectedEdgeInvalid,            *)
(* ErrVertexInvalid, ErrPentagon, ErrDuplicateInput, ErrNotNeighbors,      *)
(* ErrRsolutionMismatch, ErrMemoryAlloc, ErrMemoryBounds, ErrOptionInvalid,*)
(* and two different engine codes are never translated to the same error.  *)
(***************************************************************************)
TaxonomyErrors ==
    {"ErrFailed", "ErrDomain", "ErrLatLngDomain", "ErrResolutionDomain",
     "ErrCellInvalid", "ErrDirectedEdgeInvalid", "ErrVertexInvalid",
     "ErrPentagon", "ErrDuplicateInput", "ErrNotNeighbors",
     "ErrRsolutionMismatch", "ErrMemoryAlloc", "ErrMemoryBounds",
     "ErrOptionInvalid"}

InTaxonomy(err) == err \in TaxonomyErrors \cup {"nil", "none"}

\* the errors of toErr
C11_TranslatedInTaxonomy == InTaxonomy(errRet)

C11_TaxonomyClosed ==
    /\ InTaxonomy(unmarshalErr)
    /\ C11_TranslatedInTaxonomy
    /\ \A a, b \in DOMAIN errMap : a # b => toErr(a) # toErr(b)

\* UnmarshalText refused a text with an error that is none of the fourteen
C11_UnmarshalErrorOutsideTaxonomy ==
    /\ ~IsValid(receiver)
    /\ unmarshalErr = "invalid cell index"
    /\ unmarshalErr \notin TaxonomyErrors

(***************************************************************************)
(* The specification of the calls on a pair of cells: the distance and the *)
(* line between them, the directed edge from the first to the second, and  *)
(* the edges and vertexes of the first.                                    *)
(***************************************************************************)
\* the cells within MaxK of validCell
NearCells == UNION {HexagonsAtDistance[validCell][d] : d \in 0..MaxK}

\* the ends of a line: a hexagon origin and a cell near validCell, so that
\* the line lies on the modelled lattice; or cells of different resolutions
PathPairs ==
    (HexOrigins \X NearCells)
        \cup {<<validCell, pentagonCell>>, <<AllOnes, validCell>>}

\* the origin and the destination of an edge: also the pentagon with the
\* cells of its ring, and cells that are no neighbors
EdgePairs ==
    (HexOrigins \X NearCells)
        \cup ({pentagonCell} \X
                  (Range(pentagonNeighbors(pentagonCell))
                       \cup {pentagonCell, validCell}))
        \cup {<<validCell, pentagonCell>>, <<validCell, AllOnes>>}

SideCells == (HexOrigins \cup {pentagonCell, AllOnes}) \X {H3_NULL}

InitLine ==
    /\ \/ pcLine = "path" /\ \E p \in PathPairs : cellA = p[1] /\ cellB = p[2]
       \/ pcLine = "edge" /\ \E p \in EdgePairs : cellA = p[1] /\ cellB = p[2]
       \/ pcLine = "sides" /\ \E p \in SideCells : cellA = p[1] /\ cellB = p[2]
    /\ distanceRet = NoPos
    /\ pathRet = NoCall
    /\ neighborRets = NoCall
    /\ edgeRet = NoCell
    /\ edgeValidRet = NoBool
    /\ edgeOriginRet = NoCell
    /\ edgeDestRet = NoCell
    /\ edgeCellsRet = NoCall
    /\ cellAsEdgeRet = NoBool
    /\ edgesRet = NoCall
    /\ vertexesRet = NoCall
    /\ IdleCompact /\ IdleHier /\ IdleStr /\ IdleErr /\ IdleGrid /\ IdleNum /\ IdleBuf /\ IdleText /\ IdlePoly /\ IdleOutline /\ IdleConc

CallGridDistance ==
    /\ pcLine = "path"
    /\ distanceRet = NoPos
    /\ distanceRet' = GridDistance(cellA, cellB)
    /\ UNCHANGED <<pcLine, cellA, cellB, pathRet, neighborRets, edgeRet,
                   edgeValidRet, edgeOriginRet, edgeDestRet, edgeCellsRet,
                   cellAsEdgeRet, edgesRet, vertexesRet>>
    /\ UNCHANGED <<compactVars, hierVars, strVars, errVars, gridVars, numVars, bufVars, textVars, polyVars, outlineVars, concVars>>

CallGridPath ==
    /\ pcLine = "path"
    /\ pathRet = NoCall
    /\ pathRet' = GridPath(cellA, cellB)
    /\ UNCHANGED <<pcLine, cellA, cellB, distanceRet, neighborRets, edgeRet,
                   edgeValidRet, edgeOriginRet, edgeDestRet, edgeCellsRet,
                   cellAsEdgeRet, edgesRet, vertexesRet>>
    /\ UNCHANGED <<compactVars, hierVars, strVars, errVars, gridVars, numVars, bufVars, textVars, polyVars, outlineVars, concVars>>

\* IsNeighbor of every cell of the path and the cell after it
CallIsNeighbor ==
    /\ pcLine = "path"
    /\ pathRet # NoCall /\ pathRet.err = "nil"
    /\ neighborRets = NoCall
    /\ neighborRets' =
           Ret([i \in 1..(Len(pathRet.out) - 1) |->
                   IsNeighbor(pathRet.out[i], pathRet.out[i + 1])], "nil")
    /\ UNCHANGED <<pcLine, cellA, cellB, distanceRet, pathRet, edgeRet,
                   edgeValidRet, edgeOriginRet, edgeDestRet, edgeCellsRet,
                   cellAsEdgeRet, edgesRet, vertexesRet>>
    /\ UNCHANGED <<compactVars, hierVars, strVars, errVars, gridVars, numVars, bufVars, textVars, polyVars, outlineVars, concVars>>

CallDirectedEdge ==
    /\ pcLine = "edge"
    /\ edgeRet = NoCell
    /\ edgeRet' = DirectedEdge(cellA, cellB)
    /\ UNCHANGED <<pcLine, cellA, cellB, distanceRet, pathRet, neighborRets,
                   edgeValidRet, edgeOriginRet, edgeDestRet, edgeCellsRet,
                   cellAsEdgeRet, edgesRet, vertexesRet>>
    /\ UNCHANGED <<compactVars, hierVars, strVars, errVars, gridVars, numVars, bufVars, textVars, polyVars, outlineVars, concVars>>

\* IsValid of the edge that DirectedEdge returned
CallEdgeIsValid ==
    /\ pcLine = "edge"
    /\ edgeRet # NoCell /\ edgeRet.err = "nil"
    /\ edgeValidRet = NoBool
    /\ edgeValidRet' = [out |-> EdgeIsValid(edgeRet.out), err |-> "nil"]
    /\ UNCHANGED <<pcLine, cellA, cellB, distanceRet, pathRet, neighborRets,
                   edgeRet, edgeOriginRet, edgeDestRet, edgeCellsRet,
                   cellAsEdgeRet, edgesRet, vertexesRet>>
    /\ UNCHANGED <<compactVars, hierVars, strVars, errVars, gridVars, numVars, bufVars, textVars, polyVars, outlineVars, concVars>>

CallOrigin ==
    /\ pcLine = "edge"
    /\ edgeRet # NoCell /\ edgeRet.err = "nil"
    /\ edgeOriginRet = NoCell
    /\ edgeOriginRet' = Origin(edgeRet.out)
    /\ UNCHANGED <<pcLine, cellA, cellB, distanceRet, pathRet, neighborRets,
                   edgeRet, edgeValidRet, edgeDestRet, edgeCellsRet,
                   cellAsEdgeRet, edgesRet, vertexesRet>>
    /\ UNCHANGED <<compactVars, hierVars, strVars, errVars, gridVars, numVars, bufVars, textVars, polyVars, outlineVars, concVars>>

CallDestination ==
    /\ pcLine = "edge"
    /\ edgeRet # NoCell /\ edgeRet.err = "nil"
    /\ edgeDestRet = NoCell
    /\ edgeDestRet' = Destination(edgeRet.out)
    /\ UNCHANGED <<pcLine, cellA, cellB, distanceRet, pathRet, neighborRets,
                   edgeRet, edgeValidRet, edgeOriginRet, edgeCellsRet,
                   cellAsEdgeRet, edgesRet, vertexesRet>>
    /\ UNCHANGED <<compactVars, hierVars, strVars, errVars, gridVars, numVars, bufVars, textVars, polyVars, outlineVars, concVars>>

CallCells ==
    /\ pcLine = "edge"
    /\ edgeRet # NoCell /\ edgeRet.err = "nil"
    /\ edgeCellsRet = NoCall
    /\ edgeCellsRet' = Cells(edgeRet.out)
    /\ UNCHANGED <<pcLine, cellA, cellB, distanceRet, pathRet, neighborRets,
                   edgeRet, edgeValidRet, edgeOriginRet, edgeDestRet,
                   cellAsEdgeRet, edgesRet, vertexesRet>>
    /\ UNCHANGED <<compactVars, hierVars, strVars, errVars, gridVars, numVars, bufVars, textVars, polyVars, outlineVars, concVars>>

\* IsValid of the index of the cell taken as a directed edge
CallCellAsEdgeIsValid ==
    /\ pcLine = "edge"
    /\ cellAsEdgeRet = NoBool
    /\ cellAsEdgeRet' = [out |-> EdgeIsValid(cellA), err |-> "nil"]
    /\ UNCHANGED <<pcLine, cellA, cellB, distanceRet, pathRet, neighborRets,
                   edgeRet, edgeValidRet, edgeOriginRet, edgeDestRet,
                   edgeCellsRet, edgesRet, vertexesRet>>
    /\ UNCHANGED <<compactVars, hierVars, strVars, errVars, gridVars, numVars, bufVars, textVars, polyVars, outlineVars, concVars>>

CallDirectedEdges ==
    /\ pcLine = "sides"
    /\ edgesRet = NoCall
    /\ edgesRet' = DirectedEdges(cellA)
    /\ UNCHANGED <<pcLine, cellA, cellB, distanceRet, pathRet, neighborRets,
                   edgeRet, edgeValidRet, edgeOriginRet, edgeDestRet,
                   edgeCellsRet, cellAsEdgeRet, vertexesRet>>
    /\ UNCHANGED <<compactVars, hierVars, strVars, errVars, gridVars, numVars, bufVars, textVars, polyVars, outlineVars, concVars>>

CallCellToVertexes ==
    /\ pcLine = "sides"
    /\ vertexesRet = NoCall
    /\ vertexesRet' = CellToVertexes(cellA)
    /\ UNCHANGED <<pcLine, cellA, cellB, distanceRet, pathRet, neighborRets,
                   edgeRet, edgeValidRet, edgeOriginRet, edgeDestRet,
                   edgeCellsRet, cellAsEdgeRet, edgesRet>>
    /\ UNCHANGED <<compactVars, hierVars, strVars, errVars, gridVars, numVars, bufVars, textVars, polyVars, outlineVars, concVars>>

NextLine ==
    \/ CallGridDistance
    \/ CallGridPath
    \/ CallIsNeighbor
    \/ CallDirectedEdge
    \/ CallEdgeIsValid
    \/ CallOrigin
    \/ CallDestination
    \/ CallCells
    \/ CallCellAsEdgeIsValid
    \/ CallDirectedEdges
    \/ CallCellToVertexes

SpecLine == InitLine /\ [][NextLine]_vars

(***************************************************************************)
(* C18: whenever GridPath(a, b) succeeds for two cells of one resolution,  *)
(* the first cell of the path is a, the last is b, IsNeighbor is true of   *)
(* every cell of the path and the next, and the path has                   *)
(* GridDistance(a, b) + 1 cells.                                           *)
(***************************************************************************)
C18_PathValid ==
    (pathRet # NoCall /\ pathRet.err = "nil"
         /\ Resolution(cellA) = Resolution(cellB)) =>
        /\ ~pathRet.isNil
        /\ Len(pathRet.out) >= 1
        /\ pathRet.out[1] = cellA
        /\ pathRet.out[Len(pathRet.out)] = cellB
        /\ neighborRets # NoCall =>
               \A i \in 1..Len(neighborRets.out) :
                   neighborRets.out[i] = [out |-> TRUE, err |-> "nil"]
        /\ distanceRet # NoPos =>
               /\ distanceRet.err = "nil"
               /\ Len(pathRet.out) - 1 = distanceRet.out

\* a line of the greatest length, with all its steps looked at
C18_LongestPathWalked ==
    /\ pathRet.err = "nil"
    /\ Len(pathRet.out) = MaxK + 2
    /\ distanceRet = [out |-> MaxK + 1, err |-> "nil"]
    /\ Len(neighborRets.out) = MaxK + 1

(***************************************************************************)
(* C19: origin.DirectedEdge(dest) succeeds when the two cells are grid     *)
(* neighbors of one resolution and returns ErrNotNeighbors otherwise; the  *)
(* edge e it returns is valid, e.Origin() is origin, e.Destination() is    *)
(* dest and e.Cells() is [origin, dest]; the index of a cell, taken as a   *)
(* directed edge, is not valid.                                            *)
(***************************************************************************)
\* cellA and cellB are valid cells of one resolution at the distance 1
GridNeighbors ==
    /\ IsValid(cellA) /\ IsValid(cellB)
    /\ Resolution(cellA) = Resolution(cellB)
    /\ IF isPentagon(cellA)
       THEN cellB \in Range(pentagonNeighbors(cellA))
       ELSE onLattice(cellA, cellB)
                /\ ijDistance(PlaceOf[cellA], PlaceOf[cellB]) = 1

C19_EdgeOfNeighbors ==
    /\ edgeRet # NoCell =>
           edgeRet.err = (IF GridNeighbors THEN "nil" ELSE "ErrNotNeighbors")
    /\ edgeValidRet # NoBool => edgeValidRet.out
    /\ edgeOriginRet # NoCell => edgeOriginRet = [out |-> cellA, err |-> "nil"]
    /\ edgeDestRet # NoCell => edgeDestRet = [out |-> cellB, err |-> "nil"]
    /\ edgeCellsRet # NoCall => edgeCellsRet = Ret(<<cellA, cellB>>, "nil")
    /\ cellAsEdgeRet # NoBool => ~cellAsEdgeRet.out

\* an edge of the pentagon taken apart again
C19_PentagonEdgeTakenApart ==
    /\ cellA = pentagonCell
    /\ edgeRet.err = "nil"
    /\ edgeValidRet = [out |-> TRUE, err |-> "nil"]
    /\ edgeOriginRet.out = pentagonCell
    /\ edgeDestRet.out = cellB
    /\ edgeCellsRet.out = <<pentagonCell, cellB>>
    /\ cellAsEdgeRet = [out |-> FALSE, err |-> "nil"]

(***************************************************************************)
(* C20: for a valid cell, DirectedEdges and CellToVertexes succeed and     *)
(* return 6 entries for a hexagon and 5 for a pentagon, none of them the   *)
(* zero index: the slot of the six that the engine leaves zero for a       *)
(* pentagon is dropped.                                                    *)
(***************************************************************************)
Sides(c) == IF isPentagon(c) THEN 5 ELSE 6

OnePerSide(ret) ==
    /\ ret.err = "nil"
    /\ Len(ret.out) = Sides(cellA)
    /\ DuplicateFree(ret.out)
    /\ \A i \in 1..Len(ret.out) : ~IsZero(ret.out[i])

NumResolutions == -1..MaxNumRes

InitNum ==
    /\ resA \in NumResolutions
    /\ resB \in NumResolutions
    /\ resA < resB
    /\ numA = <<>>
    /\ numB = <<>>
    /\ IdleCompact /\ IdleHier /\ IdleStr /\ IdleErr /\ IdleGrid /\ IdleLine /\ IdleBuf /\ IdleText /\ IdlePoly /\ IdleOutline /\ IdleConc

CallNumCellsA ==
    /\ numA = <<>>
    /\ numA' = NumCells(resA)
    /\ UNCHANGED <<resA, resB, numB>>
    /\ UNCHANGED <<compactVars, hierVars, strVars, errVars, gridVars, lineVars, bufVars, textVars, polyVars, outlineVars, concVars>>

CallNumCellsB ==
    /\ numB = <<>>
    /\ numB' = NumCells(resB)
    /\ UNCHANGED <<resA, resB, numA>>
    /\ UNCHANGED <<compactVars, hierVars, strVars, errVars, gridVars, lineVars, bufVars, textVars, polyVars, outlineVars, concVars>>

NextNum == CallNumCellsA \/ CallNumCellsB

SpecNum == InitNum /\ [][NextNum]_vars

\* 2 + 120 * 7^r for r >= 0, in ints wide enough to hold it
RECURSIVE SevenToThe(_)
SevenToThe(r) ==
    IF r = 0 THEN limbsOf(1, MaxLimbs) ELSE mulInt(SevenToThe(r - 1), 7)

CellCount(r) == addInt(mulInt(SevenToThe(r), 120), limbsOf(2, MaxLimbs))

\* the int x is the number v: it is not negative and wider it is v
HoldsCount(x, v) ==
    /\ ~IsNegativeInt(x)
    /\ [i \in 1..MaxLimbs |-> IF i <= Len(x) THEN x[i] ELSE 0] = v

SpecResolutions == 0..MaxResolution

\* C25: NumCells(r) is 2 + 120 * 7^r for every resolution r in 0..15, with
\* no overflow of the 64-bit int: 122 at 0, 691776122 at 8 and
\* 569707381193162 at 15; and NumCells grows strictly with r in that range.
C25_NumCells ==
    /\ (numA # <<>> /\ resA \in SpecResolutions) =>
            /\ HoldsCount(numA, CellCount(resA))
            /\ resA = 0 => Decimal(numA) = <<1, 2, 2>>
            /\ resA = 8 => Decimal(numA) = <<6, 9, 1, 7, 7, 6, 1, 2, 2>>
    /\ (numB # <<>> /\ resB \in SpecResolutions) =>
            /\ HoldsCount(numB, CellCount(resB))
            /\ resB = 15 =>
                   Decimal(numB) = <<5, 6, 9, 7, 0, 7, 3, 8, 1, 1, 9, 3, 1, 6, 2>>
    /\ (numA # <<>> /\ numB # <<>> /\ resA \in SpecResolutions
                     /\ resB \in SpecResolutions) => lessInt(numA, numB)

\* the counts of the resolutions 8 and 15 have been taken
C25_CountsOfEightAndFifteen ==
    /\ resA = 8 /\ resB = 15
    /\ Decimal(numA) = <<6, 9, 1, 7, 7, 6, 1, 2, 2>>
    /\ Decimal(numB) = <<5, 6, 9, 7, 0, 7, 3, 8, 1, 1, 9, 3, 1, 6, 2>>

\* above the resolutions of the grid the count no longer fits the int
NumCellsOverflows ==
    /\ numB # <<>>
    /\ ~HoldsCount(numB, CellCount(resB))

(***************************************************************************)
(* The conversion of a buffer, on the buffers of up to MaxBuf slots that   *)
(* hold zeros, two cells and the index of all ones.                        *)
(***************************************************************************)
SlotValues == {H3_NULL, validCell, pentagonCell, AllOnes}

Buffers == UNION {[1..n -> SlotValues] : n \in 0..MaxBuf}

InitBuf ==
    /\ buffer \in Buffers
    /\ pruneArg \in BOOLEAN
    /\ refitArg \in BOOLEAN
    /\ fromCRet = NoCall
    /\ IdleCompact /\ IdleHier /\ IdleStr /\ IdleErr /\ IdleGrid /\ IdleLine /\ IdleText /\ IdlePoly /\ IdleOutline /\ IdleConc
    /\ IdleNum

\* &chs[0] panics on the empty buffer
CallCellsFromC ==
    /\ fromCRet = NoCall
    /\ fromCRet' = IF Len(buffer) = 0 THEN Panic
                   ELSE Ret(cellsFromC(buffer, pruneArg, refitArg), "nil")
    /\ UNCHANGED <<buffer, pruneArg, refitArg>>
    /\ UNCHANGED <<compactVars, hierVars, strVars, errVars, gridVars, lineVars,
                   numVars, textVars, polyVars, outlineVars, concVars>>

NextBuf == CallCellsFromC

SpecBuf == InitBuf /\ [][NextBuf]_vars

\* the place of the last entry of s that is not zero, 0 when there is none
LastNonZero(s) ==
    IF \A i \in 1..Len(s) : IsZero(s[i]) THEN 0
    ELSE CHOOSE i \in 1..Len(s) :
             ~IsZero(s[i]) /\ \A j \in (i + 1)..Len(s) : IsZero(s[j])

\* the entries of the buffer the first loop of cellsFromC keeps
KeptEntries ==
    SelectSeq(buffer,
              LAMBDA h : ~(pruneArg /\ (IsZero(h) \/ IsNegative(h))))

RefitCalled == fromCRet # NoCall /\ ~fromCRet.panicked /\ refitArg

\* C27: cellsFromC with refit = true returns its input truncated right after
\* its last non-zero entry: the trailing zeros are removed and every entry
\* up to and including the last non-zero one is kept, in order.
C27_RefitToLastNonEmpty ==
    RefitCalled =>
        fromCRet.out = SubSeq(KeptEntries, 1, LastNonZero(KeptEntries))

\* C27: a buffer with a zero before a cell was refitted, and the cell is lost
C27_CellAfterZeroLost ==
    /\ RefitCalled
    /\ buffer = <<validCell, H3_NULL, pentagonCell>>
    /\ ~pruneArg
    /\ fromCRet.out = <<validCell>>

\* what the refit loop does: it cuts at the first zero
RefitCutsAtFirstZero ==
    RefitCalled =>
        /\ \A i \in 1..Len(fromCRet.out) : ~IsZero(fromCRet.out[i])
        /\ fromCRet.out = SubSeq(KeptEntries, 1, Len(fromCRet.out))
        /\ Len(fromCRet.out) < Len(KeptEntries) =>
               IsZero(KeptEntries[Len(fromCRet.out) + 1])

\* C27, what follows for the compaction calls: the engine writes its cells
\* from the front of the buffer without a zero between them, so the
\* refitted result holds every cell the engine wrote
C27_CompactionKeepsCells ==
    (CompactCalled /\ ~compactRet.panicked) =>
        \A i \in 1..Len(in) :
            ~IsZero(compactCells(in, Len(in)).out[i]) =>
                compactCells(in, Len(in)).out[i] \in Range(compactRet.out)

(***************************************************************************)
(* The unmarshalling of a text into a receiver that holds a value: the     *)
(* receivers hold zero, a cell or a vertex of the tests' validCell; the    *)
(* texts are those of a cell and of a vertex in their spellings, and the   *)
(* raw strings.                                                            *)
(***************************************************************************)
validVertex == [validCell EXCEPT !.mode = H3_VERTEX_MODE, !.rsv = 2]

Texts ==
    Arguments(String(validCell)) \cup Arguments(String(validVertex))
        \cup Arguments(String(H3_NULL))

InitText ==
    /\ heldCell \in {H3_NULL, validCell, pentagonCell}
    /\ heldVertex \in {H3_NULL, validVertex}
    /\ textArg \in Texts
    /\ cellAfter = NoUnmarshal
    /\ vertexAfter = NoUnmarshal
    /\ IdleCompact /\ IdleHier /\ IdleStr /\ IdleErr /\ IdleGrid /\ IdleLine
    /\ IdleNum /\ IdleBuf /\ IdlePoly /\ IdleOutline /\ IdleConc

CallCellUnmarshalText ==
    /\ cellAfter = NoUnmarshal
    /\ cellAfter' = UnmarshalText(textArg)
    /\ UNCHANGED <<heldCell, heldVertex, textArg, vertexAfter>>
    /\ UNCHANGED <<compactVars, hierVars, strVars, errVars, gridVars, lineVars,
                   numVars, bufVars, polyVars, outlineVars, concVars>>

CallVertexUnmarshalText ==
    /\ vertexAfter = NoUnmarshal
    /\ vertexAfter' = VertexUnmarshalText(textArg)
    /\ UNCHANGED <<heldCell, heldVertex, textArg, cellAfter>>
    /\ UNCHANGED <<compactVars, hierVars, strVars, errVars, gridVars, lineVars,
                   numVars, bufVars, polyVars, outlineVars, concVars>>

NextText == CallCellUnmarshalText \/ CallVertexUnmarshalText

SpecText == InitText /\ [][NextText]_vars

\* C28: when Cell.UnmarshalText or Vertex.UnmarshalText returns an error,
\* the receiver keeps the value it held before the call.
C28_ReceiverKeptOnError ==
    /\ cellAfter.err = "invalid cell index" => cellAfter.c = heldCell
    /\ vertexAfter.err = "invalid cell index" => vertexAfter.c = heldVertex

\* C28: the empty text was unmarshalled into a receiver that held validCell:
\* the call failed and the receiver holds zero
C28_ReceiverOverwritten ==
    /\ heldCell = validCell
    /\ textArg = <<>>
    /\ cellAfter.err = "invalid cell index"
    /\ cellAfter.c = H3_NULL

\* what the two calls do: the receiver holds what the text parses to,
\* whether or not that is valid
ReceiverHoldsParsed ==
    /\ cellAfter # NoUnmarshal =>
           cellAfter.c = CellOfUint64(IndexFromString(textArg))
    /\ vertexAfter # NoUnmarshal =>
           vertexAfter.c = CellOfUint64(IndexFromString(textArg))

\* a Vertex receiver was overwritten by the text of a cell
VertexReceiverOverwritten ==
    /\ heldVertex = validVertex
    /\ textArg = String(validCell)
    /\ vertexAfter.err = "invalid cell index"
    /\ vertexAfter.c = validCell


(***************************************************************************)
(* Empty inputs of the compaction calls, under SpecCompact.                *)
(***************************************************************************)
\* C30: CompactCells and UncompactCells called on the empty list return
\* without a panic, and what they return is the empty list
C30_EmptyInputsComplete ==
    (in = <<>> /\ CompactCalled) =>
        /\ ~compactRet.panicked
        /\ compactRet.out = <<>>
        /\ ~uncompactRet.panicked
        /\ uncompactRet.out = <<>>

\* C30: both calls were made on the empty list, at any target resolution,
\* and neither returned
C30_EmptyInputsPanicked ==
    /\ in = <<>>
    /\ CompactCalled
    /\ cellsToCPanics(in)
    /\ compactRet = Panic
    /\ uncompactRet = Panic

\* CompactCells panics on the empty list and on no other list
EmptyInputOnlyPanics == CompactCalled => (compactRet.panicked <=> in = <<>>)


(***************************************************************************)
(* The specification of the polygon calls: a polygon and a resolution,     *)
(* then PolygonToCells, then PolygonToCellsExperimental under each mode in *)
(* the order of the tests, then one call of PolygonToCellsExperimental     *)
(* with a variadic maximum.  The polygons lie round PatchCenter, so that   *)
(* every cell they touch is on the modelled lattice.                       *)
(***************************************************************************)
LatLngAt(x, y) == [Lat |-> y, Lng |-> x]

\* a loop round PatchCenter and its six neighbors
DiskLoop ==
    <<LatLngAt(4, 0), LatLngAt(4, 4), LatLngAt(0, 4),
      LatLngAt(-4, 0), LatLngAt(-4, -4), LatLngAt(0, -4)>>

\* a loop inside PatchCenter
InnerLoop == <<LatLngAt(-1, -1), LatLngAt(2, 0), LatLngAt(0, 2)>>

\* a loop over the corner that three cells share
CornerLoop == <<LatLngAt(1, -1), LatLngAt(4, 2), LatLngAt(1, 3)>>

OuterLoops == {<<>>, DiskLoop, InnerLoop, CornerLoop}

HoleLists ==
    {<<>>, <<InnerLoop>>, <<<<>>>>, <<InnerLoop, <<>>>>,
     <<<<>>, CornerLoop>>}

GeoPolygons ==
    {[GeoLoop |-> g, Holes |-> hs] : g \in OuterLoops, hs \in HoleLists}

\* the resolution of the modelled lattice, and one on each side of the
\* range; every resolution for the polygons that never reach the engine
PolyResolutions(polygon) ==
    IF Len(polygon.GeoLoop) = 0 THEN -1..(MaxResolution + 1)
    ELSE {-1, PatchCenter.res, MaxResolution + 1}

\* the modes in the order the tests call them, and the invalid one
TestModes ==
    <<ContainmentCenter, ContainmentFull, ContainmentOverlapping,
      ContainmentOverlappingBbox, ContainmentInvalid>>

\* the variadic argument: absent, one maximum, or two of which the first
\* counts
MaxNumCellsArgs ==
    {<<>>, <<MathMaxInt64>>, <<limbsOf(1, IntLimbs), MathMaxInt64>>}
    \cup {<<limbsOf(n, IntLimbs)>> : n \in 0..MaxCells}

InitPoly ==
    /\ geoPolygon \in GeoPolygons
    /\ polyRes \in PolyResolutions(geoPolygon)
    /\ fillOut = NoOutcome
    /\ nextMode = 1
    /\ modeOuts = <<>>
    /\ cappedMode = 0
    /\ maxNumCellsArg = <<>>
    /\ cappedOut = NoOutcome
    /\ IdleCompact /\ IdleHier /\ IdleStr /\ IdleErr /\ IdleGrid /\ IdleLine
    /\ IdleNum /\ IdleBuf /\ IdleText /\ IdleOutline /\ IdleConc

CallPolygonToCells ==
    /\ fillOut = NoOutcome
    /\ fillOut' = PolygonToCells(geoPolygon, polyRes)
    /\ UNCHANGED <<geoPolygon, polyRes, nextMode, modeOuts, cappedMode,
                   maxNumCellsArg, cappedOut>>
    /\ UNCHANGED <<compactVars, hierVars, strVars, errVars, gridVars, lineVars, numVars, bufVars, textVars, outlineVars, concVars>>

CallPolygonToCellsExperimental ==
    /\ fillOut # NoOutcome
    /\ nextMode <= Len(TestModes)
    /\ modeOuts' = Append(modeOuts,
           PolygonToCellsExperimental(geoPolygon, polyRes,
                                      TestModes[nextMode], <<>>))
    /\ nextMode' = nextMode + 1
    /\ UNCHANGED <<geoPolygon, polyRes, fillOut, cappedMode, maxNumCellsArg,
                   cappedOut>>
    /\ UNCHANGED <<compactVars, hierVars, strVars, errVars, gridVars, lineVars, numVars, bufVars, textVars, outlineVars, concVars>>

CallWithMaxNumCells ==
    /\ nextMode > Len(TestModes)
    /\ cappedOut = NoOutcome
    /\ \E mode \in Range(TestModes), max \in MaxNumCellsArgs :
        /\ cappedMode' = mode
        /\ maxNumCellsArg' = max
        /\ cappedOut' =
               PolygonToCellsExperimental(geoPolygon, polyRes, mode, max)
    /\ UNCHANGED <<geoPolygon, polyRes, fillOut, nextMode, modeOuts>>
    /\ UNCHANGED <<compactVars, hierVars, strVars, errVars, gridVars, lineVars, numVars, bufVars, textVars, outlineVars, concVars>>

NextPoly ==
    CallPolygonToCells \/ CallPolygonToCellsExperimental \/ CallWithMaxNumCells

SpecPoly == InitPoly /\ [][NextPoly]_vars


\* the outcomes of the calls made so far
Outcomes ==
    Range(modeOuts) \cup ({fillOut, cappedOut} \ {NoOutcome})

EmptyOuterLoop == Len(geoPolygon.GeoLoop) = 0

\* a nil list and a nil error, with no buffer allocated and no call of the
\* engine
NothingDone(o) ==
    /\ o.ret = RetNil("nil")
    /\ Len(o.ret.out) = 0
    /\ o.heap = EmptyHeap
    /\ o.calls = 0

(***************************************************************************)
(* C21: for a polygon whose outer loop is empty, PolygonToCells and        *)
(* PolygonToCellsExperimental return an empty list and a nil error,        *)
(* whatever the resolution, the mode and the holes, and neither allocates  *)
(* a buffer nor calls the engine.                                          *)
(***************************************************************************)
C21_EmptyOuterLoop ==
    EmptyOuterLoop => \A o \in Outcomes : NothingDone(o)

\* C21: every call was made on an empty outer loop with a hole that has
\* vertices, at a resolution out of range, the last under the invalid mode
C21_EmptyLoopAllCalls ==
    /\ EmptyOuterLoop
    /\ geoPolygon.Holes = <<InnerLoop, <<>>>>
    /\ polyRes = -1
    /\ fillOut # NoOutcome
    /\ Len(modeOuts) = Len(TestModes)
    /\ cappedOut # NoOutcome
    /\ cappedMode = ContainmentInvalid
    /\ maxNumCellsArg = <<limbsOf(0, IntLimbs)>>
    /\ \A o \in Outcomes : NothingDone(o)

\* a call on a loop with vertices allocates and asks the engine
AllocatesOtherwise ==
    ~EmptyOuterLoop =>
        \A o \in Outcomes : o.calls >= 1 /\ Len(o.heap.blocks) >= 1

(***************************************************************************)
(* C29: every C buffer allocCGeoPolygon creates for a call is freed once   *)
(* before the call returns, on success and on every error path, and the    *)
(* pointers to it are nil afterwards; a hole without vertices allocates    *)
(* nothing and is freed safely.                                            *)
(***************************************************************************)
\* the buffers of a polygon with an outer loop: the vertices of the outer
\* loop, the array of the holes if there are holes, and the vertices of
\* each hole that has some
BuffersOf(polygon) ==
    1 + (IF Len(polygon.Holes) = 0 THEN 0 ELSE 1)
      + Cardinality({h \in 1..Len(polygon.Holes) : Len(polygon.Holes[h]) > 0})

\* every block was freed once, nothing was read or written through nil or
\* in a freed block, and no pointer of cpoly or of a hole is left
FreedOnce(o) ==
    /\ \A b \in 1..Len(o.heap.blocks) : o.heap.blocks[b].frees = 1
    /\ o.heap.faults = 0
    /\ o.cpoly.geoloop.verts = 0
    /\ o.cpoly.holes = 0
    /\ \A b \in 1..Len(o.heap.blocks) :
         \A i \in 1..Len(o.heap.blocks[b].data) :
            "verts" \in DOMAIN o.heap.blocks[b].data[i]
                => o.heap.blocks[b].data[i].verts = 0

C29_BuffersFreedOnce ==
    \A o \in Outcomes :
        /\ FreedOnce(o)
        /\ Len(o.heap.blocks) =
              IF EmptyOuterLoop THEN 0 ELSE BuffersOf(geoPolygon)

\* C29: a polygon with a hole of three vertices and a hole of none went
\* through a successful call, a call the size query refused and a call the
\* fill refused, each with three buffers
C29_FreedOnEveryPath ==
    /\ geoPolygon = [GeoLoop |-> DiskLoop, Holes |-> <<InnerLoop, <<>>>>]
    /\ fillOut.ret.err = "nil"
    /\ fillOut.calls = 2
    /\ Len(modeOuts) = Len(TestModes)
    /\ modeOuts[Len(TestModes)].ret.err = "ErrOptionInvalid"
    /\ modeOuts[Len(TestModes)].calls = 1
    /\ cappedOut.ret.err = "ErrMemoryBounds"
    /\ cappedOut.calls = 2
    /\ \A o \in Outcomes : Len(o.heap.blocks) = 3 /\ FreedOnce(o)

\* the deferred free runs when &out[0] would panic as well: no call of the
\* model panics
NoPolygonCallPanics == \A o \in Outcomes : ~o.ret.panicked


\* the polygon has an outer loop and the resolution is in range
FillArgumentsValid ==
    ~EmptyOuterLoop /\ polyRes \in 0..MaxResolution

\* the cells the call of a mode without a maximum returned, by the place of
\* the mode in TestModes
CellsOfMode(i) == Range(modeOuts[i].ret.out)

(***************************************************************************)
(* C22: for one polygon and one resolution, the cells                      *)
(* PolygonToCellsExperimental returns under ContainmentFull are among      *)
(* those it returns under ContainmentCenter, those among the ones under    *)
(* ContainmentOverlapping, and those among the ones under                  *)
(* ContainmentOverlappingBbox.                                             *)
(***************************************************************************)
C22_ContainmentMonotone ==
    Len(modeOuts) >= 4 =>
        /\ CellsOfMode(2) \subseteq CellsOfMode(1)
        /\ CellsOfMode(1) \subseteq CellsOfMode(3)
        /\ CellsOfMode(3) \subseteq CellsOfMode(4)
        /\ FillArgumentsValid =>
              \A i \in 1..4 : /\ modeOuts[i].ret.err = "nil"
                              /\ H3_NULL \notin CellsOfMode(i)

\* C22: the four fills of the loop round seven cells are 1, 7, 10 and 14
\* cells, each a part of the next
C22_FourDistinctFills ==
    /\ Len(modeOuts) >= 4
    /\ geoPolygon = [GeoLoop |-> DiskLoop, Holes |-> <<>>]
    /\ FillArgumentsValid
    /\ CellsOfMode(2) = {PatchCenter}
    /\ Cardinality(CellsOfMode(1)) = 7
    /\ Cardinality(CellsOfMode(3)) = 10
    /\ Cardinality(CellsOfMode(4)) = 14
    /\ CellsOfMode(2) \subseteq CellsOfMode(1)
    /\ CellsOfMode(1) \subseteq CellsOfMode(3)
    /\ CellsOfMode(3) \subseteq CellsOfMode(4)

\* PolygonToCells returns the fill of the center mode
FillIsCenterFill ==
    (Len(modeOuts) >= 1 /\ FillArgumentsValid) =>
        /\ fillOut.ret.err = "nil"
        /\ Range(fillOut.ret.out) = CellsOfMode(1)

(***************************************************************************)
(* C23: PolygonToCellsExperimental fails with ErrMemoryBounds when the     *)
(* caller passes a maximum smaller than the number of cells the polygon    *)
(* produces under the mode, and only then; without a maximum the limit is  *)
(* math.MaxInt64 and the call never fails with ErrMemoryBounds.            *)
(***************************************************************************)
\* the number of cells the polygon produces under the mode of the last call
Produced ==
    Len(polygonCells(readAllocated(allocCGeoPolygon(geoPolygon, EmptyHeap)),
                     cappedMode))

\* the last call was made with arguments the engine accepts
CappedCase ==
    /\ cappedOut # NoOutcome
    /\ FillArgumentsValid
    /\ cappedMode # ContainmentInvalid

MaxBelowProduced ==
    /\ Len(maxNumCellsArg) > 0
    /\ lessInt(maxNumCellsArg[1], limbsOf(Produced, IntLimbs))

C23_MemoryBounds ==
    /\ \A i \in 1..Len(modeOuts) : modeOuts[i].ret.err # "ErrMemoryBounds"
    /\ CappedCase =>
          IF MaxBelowProduced
          THEN cappedOut.ret.err = "ErrMemoryBounds"
          ELSE /\ cappedOut.ret.err = "nil"
               /\ Len(cappedOut.ret.out) = Produced

\* C23: the loop round seven cells produces seven cells under the center
\* mode, and the call with the maximum six failed with ErrMemoryBounds
C23_MaxOfSixBusted ==
    /\ CappedCase
    /\ geoPolygon.GeoLoop = DiskLoop
    /\ cappedMode = ContainmentCenter
    /\ Produced = 7
    /\ maxNumCellsArg = <<limbsOf(6, IntLimbs)>>
    /\ cappedOut.ret.err = "ErrMemoryBounds"
    /\ modeOuts[1].ret.err = "nil"

\* the call with the maximum seven returned the seven cells
MaxOfSevenEnough ==
    /\ CappedCase
    /\ geoPolygon.GeoLoop = DiskLoop
    /\ cappedMode = ContainmentCenter
    /\ maxNumCellsArg = <<limbsOf(7, IntLimbs)>>
    /\ cappedOut.ret.err = "nil"
    /\ Len(cappedOut.ret.out) = 7

\* the call that failed with ErrMemoryBounds returned the cells written
\* before the maximum was reached, not a nil list
BustedCallReturnsCells ==
    /\ CappedCase
    /\ cappedOut.ret.err = "ErrMemoryBounds"
    /\ ~cappedOut.ret.isNil
    /\ Len(cappedOut.ret.out) = smallInt(maxNumCellsArg[1])
    /\ Len(cappedOut.ret.out) > 0


(***************************************************************************)
(* The specification of the outline call, on the lists of the tests: the   *)
(* disk of seven cells round validCell and every list of some of its       *)
(* cells, in the order of the disk; two disks that do not touch; the ring  *)
(* at distance 2 with the cell in its middle; all the cells of resolution  *)
(* 0; and Cell(-1).                                                        *)
(***************************************************************************)
DiskOfSeven == GridDisk(validCell, 1).out

\* the cell at the offset off from validCell
CellAtOffset(off) ==
    CellAtPlace[<<PlaceOf[validCell][1] + off[1],
                  PlaceOf[validCell][2] + off[2]>>]

TwoDisks ==
    GridDisk(CellAtOffset(<<-2, 0>>), 1).out
        \o GridDisk(CellAtOffset(<<2, 0>>), 1).out

RingAndMiddle == GridRing(validCell, 2).out \o <<validCell>>

AllOfResolutionZero == [bc \in 1..NumBaseCells |-> MkCell(bc - 1, <<>>)]

\* the lists of the cells of seq at the positions of a set
SubLists(seq) ==
    {SelectSeq(seq, LAMBDA c : c \in keep) : keep \in SUBSET Range(seq)}

CellSets ==
    SubLists(DiskOfSeven)
        \cup {TwoDisks, RingAndMiddle, AllOfResolutionZero, <<AllOnes>>}

InitOutline ==
    /\ cellSet \in CellSets
    /\ multiPolygonOut = NoCall
    /\ IdleCompact /\ IdleHier /\ IdleStr /\ IdleErr /\ IdleGrid /\ IdleLine
    /\ IdleNum /\ IdleBuf /\ IdleText /\ IdlePoly /\ IdleConc

CallCellsToMultiPolygon ==
    /\ multiPolygonOut = NoCall
    /\ multiPolygonOut' = CellsToMultiPolygon(cellSet)
    /\ UNCHANGED cellSet
    /\ UNCHANGED <<compactVars, hierVars, strVars, errVars, gridVars, lineVars, numVars, bufVars, textVars, polyVars, concVars>>

NextOutline == CallCellsToMultiPolygon

SpecOutline == InitOutline /\ [][NextOutline]_vars

\* the call was made on a list without duplicates of valid cells of one
\* resolution
OutlineCase ==
    /\ multiPolygonOut # NoCall
    /\ \A i \in 1..Len(cellSet) : isValidCell(cellSet[i])
    /\ \A i, j \in 1..Len(cellSet) :
          /\ cellSet[i].res = cellSet[j].res
          /\ i # j => cellSet[i] # cellSet[j]

\* the edges of a loop of a returned polygon, on the plane
EdgesOfLoop(loop) ==
    {<<<<loop[n].Lng, loop[n].Lat>>,
       <<loop[(n % Len(loop)) + 1].Lng, loop[(n % Len(loop)) + 1].Lat>>>> :
        n \in 1..Len(loop)}

PlaneLoop(loop) == [n \in 1..Len(loop) |-> <<loop[n].Lng, loop[n].Lat>>]

LoopsOf(polygon) == {polygon.GeoLoop} \cup Range(polygon.Holes)

\* the parts of a set of cells of the lattice that hang together: the
\* cells that are reached from the cells of from
RECURSIVE ReachedFrom(_, _)
ReachedFrom(S, from) ==
    LET more == {c \in S \ from :
                    \E d \in from : ijDistance(PlaceOf[c], PlaceOf[d]) = 1}
    IN IF more = {} THEN from ELSE ReachedFrom(S, from \cup more)

RECURSIVE PartsOf(_)
PartsOf(S) ==
    IF S = {} THEN 0
    ELSE 1 + PartsOf(S \ ReachedFrom(S, {CHOOSE c \in S : TRUE}))

\* the number of connected outlines of the cells
OutlinesOf(S) == IF S \subseteq GridPatch THEN PartsOf(S) ELSE 0

\* the polygons cover the unshared edges, each edge once, the first loop of
\* a polygon runs round it and the others are holes inside it
PolygonsAreOutline(polygons, S) ==
    /\ Len(polygons) = OutlinesOf(S)
    /\ UNION {EdgesOfLoop(l) : l \in UNION {LoopsOf(polygons[i]) :
                                               i \in 1..Len(polygons)}}
          = unsharedEdges(S)
    /\ \A i \in 1..Len(polygons) :
          /\ isOuterLoop(PlaneLoop(polygons[i].GeoLoop))
          /\ \A h \in 1..Len(polygons[i].Holes) :
                /\ ~isOuterLoop(PlaneLoop(polygons[i].Holes[h]))
                /\ pointInsideGeoLoop(PlaneLoop(polygons[i].GeoLoop),
                       PlaneLoop(polygons[i].Holes[h])[1])

\* the numbers of points of the loops of the polygons: for each polygon the
\* outer loop's, then the holes'
LoopSizes(polygons) ==
    [i \in 1..Len(polygons) |->
        <<Len(polygons[i].GeoLoop)>> \o
        [h \in 1..Len(polygons[i].Holes) |-> Len(polygons[i].Holes[h])]]

\* the cases of TestCellsToMultiPolygon
ExamplesAsTested ==
    /\ cellSet = DiskOfSeven => LoopSizes(multiPolygonOut.out) = <<<<18>>>>
    /\ cellSet = Tail(DiskOfSeven)
          => LoopSizes(multiPolygonOut.out) = <<<<18, 6>>>>
    /\ cellSet = SubSeq(DiskOfSeven, 1, 2)
          => LoopSizes(multiPolygonOut.out) = <<<<10>>>>
    /\ cellSet = TwoDisks
          => LoopSizes(multiPolygonOut.out) = <<<<18>>, <<18>>>>
    /\ cellSet = <<>> => multiPolygonOut = RetNil("nil")

(***************************************************************************)
(* C24: for a list without duplicates of cells of one resolution,          *)
(* CellsToMultiPolygon returns one GeoPolygon for each connected outline,  *)
(* its GeoLoop the outer loop and its Holes the other loops, the loops     *)
(* made of the edges that no two cells of the list share: 1 polygon with   *)
(* an 18-point loop for the disk of seven, an 18-point loop and a 6-point  *)
(* hole for the ring of six, a 10-point loop for two neighbors, 2 polygons *)
(* for two disks apart, and an empty list and no error for no cells.       *)
(***************************************************************************)
C24_OutlineOfCells ==
    OutlineCase =>
        /\ ~multiPolygonOut.panicked
        /\ multiPolygonOut.err = "nil"
        /\ PolygonsAreOutline(multiPolygonOut.out, Range(cellSet))
        /\ ExamplesAsTested

\* C24 on the lists of cells of the lattice, which have an outline or are
\* empty
C24_OutlineOnLattice ==
    (OutlineCase /\ Range(cellSet) \subseteq GridPatch) =>
        /\ ~multiPolygonOut.panicked
        /\ multiPolygonOut.err = "nil"
        /\ PolygonsAreOutline(multiPolygonOut.out, Range(cellSet))
        /\ ExamplesAsTested

\* C24: the cells of resolution 0 are a list without duplicates of valid
\* cells that has no outline, and the call on it did not return
C24_NoOutlinePanics ==
    /\ OutlineCase
    /\ cellSet = AllOfResolutionZero
    /\ unsharedEdges(Range(cellSet)) = {}
    /\ multiPolygonOut = Panic

\* the ring at distance 2 and the cell in its middle: two polygons, the
\* first with a hole
IslandInHole ==
    /\ cellSet = RingAndMiddle
    /\ OutlineCase
    /\ LoopSizes(multiPolygonOut.out) \in
          {<<<<30, 18>>, <<6>>>>, <<<<6>>, <<30, 18>>>>}

\* Cell(-1) is refused
InvalidCellRefused ==
    (cellSet = <<AllOnes>> /\ multiPolygonOut # NoCall)
        => multiPolygonOut = RetNil("ErrCellInvalid")


\* C24 fails on no list but that of all the cells of resolution 0
OnlyNoOutlineFails ==
    (OutlineCase /\ cellSet # AllOfResolutionZero) =>
        /\ Range(cellSet) \subseteq GridPatch
        /\ ~multiPolygonOut.panicked

\* the ring of six cells round validCell came out as one polygon with an
\* 18-point loop and a 6-point hole
RingOfSixOutlined ==
    /\ OutlineCase
    /\ cellSet = Tail(DiskOfSeven)
    /\ validCell \notin Range(cellSet)
    /\ LoopSizes(multiPolygonOut.out) = <<<<18, 6>>>>
    /\ PolygonsAreOutline(multiPolygonOut.out, Range(cellSet))


(***************************************************************************)
(* The specification of concurrent calls: NumThreads threads each call     *)
(* GridDisk once, and the steps of their calls interleave in any order.    *)
(* A step is a statement of GridDisk or an iteration of the loop of        *)
(* cellsFromC, which works in place on the buffer of the call; the slice a *)
(* call returns is a part of that buffer, so that its content is read in   *)
(* the memory as it is afterwards.                                         *)
(***************************************************************************)
Threads == 1..NumThreads

\* the arguments of the concurrent calls: the disks of seven cells round
\* two neighbors, which share cells, and Cell(-1)
ConcArguments ==
    {<<validCell, 1>>, <<CellAtOffset(<<1, 0>>), 1>>, <<AllOnes, 0>>}

ThreadCalls ==
    {[origin |-> a[1], k |-> a[2], pc |-> "start", out |-> 0, errC |-> 0,
      i |-> 1, n |-> 0, err |-> "none"] : a \in ConcArguments}

InitConc ==
    /\ memory = <<>>
    /\ errTable = errMap
    /\ threads \in [Threads -> ThreadCalls]
    /\ IdleCompact /\ IdleHier /\ IdleStr /\ IdleErr /\ IdleGrid /\ IdleLine
    /\ IdleNum /\ IdleBuf /\ IdleText /\ IdlePoly /\ IdleOutline

\* the address of the buffer make returns: one no buffer has
makeAddress_shared(mem) == 1

makeAddress(mem) == Len(mem) + 1

\* the memory with the zeroed buffer of n words at the address a
madeAt(mem, a, n) ==
    IF a > Len(mem) THEN Append(mem, ZeroBuffer(n))
    ELSE [mem EXCEPT ![a] = ZeroBuffer(n)]

\* out := make([]C.H3Index, maxGridDiskSize(k))
StepMake(t) ==
    /\ threads[t].pc = "start"
    /\ memory' = madeAt(memory, makeAddress(memory),
                        maxGridDiskSize(threads[t].k))
    /\ threads' = [threads EXCEPT ![t].out = makeAddress(memory),
                                  ![t].pc = "made"]
    /\ UNCHANGED errTable
    /\ UNCHANGED <<compactVars, hierVars, strVars, errVars, gridVars, lineVars, numVars, bufVars, textVars, polyVars, outlineVars>>

\* the buffer once the engine has written r.out at &out[0]
engineWrote(t, r) ==
    /\ memory' = [memory EXCEPT ![threads[t].out] = r.out]
    /\ threads' = [threads EXCEPT ![t].errC = r.err, ![t].pc = "filled"]

\* errC := C.gridDisk(origin, k, &out[0])
StepEngine(t) ==
    /\ threads[t].pc = "made"
    /\ engineWrote(t, gridDisk(threads[t].origin, threads[t].k,
                               Len(memory[threads[t].out])))
    /\ UNCHANGED errTable
    /\ UNCHANGED <<compactVars, hierVars, strVars, errVars, gridVars, lineVars, numVars, bufVars, textVars, polyVars, outlineVars>>

\* an iteration of the loop of cellsFromC(out, true, false): in[i] is
\* skipped, or appended to out, which is in[:n]
StepFromC(t) ==
    /\ threads[t].pc = "filled"
    /\ threads[t].i <= Len(memory[threads[t].out])
    /\ IF IsZero(memory[threads[t].out][threads[t].i])
          \/ IsNegative(memory[threads[t].out][threads[t].i])
       THEN /\ threads' = [threads EXCEPT ![t].i = @ + 1]
            /\ UNCHANGED memory
       ELSE /\ memory' = [memory EXCEPT ![threads[t].out][threads[t].n + 1] =
                             memory[threads[t].out][threads[t].i]]
            /\ threads' = [threads EXCEPT ![t].i = @ + 1, ![t].n = @ + 1]
    /\ UNCHANGED errTable
    /\ UNCHANGED <<compactVars, hierVars, strVars, errVars, gridVars, lineVars, numVars, bufVars, textVars, polyVars, outlineVars>>

\* toErr(errC) reads errMap, and the call returns
StepToErr(t) ==
    /\ threads[t].pc = "filled"
    /\ threads[t].i > Len(memory[threads[t].out])
    /\ threads' = [threads EXCEPT
           ![t].err = IF threads[t].errC \in DOMAIN errTable
                      THEN errTable[threads[t].errC] ELSE "ErrUnknown",
           ![t].pc = "done"]
    /\ UNCHANGED <<memory, errTable>>
    /\ UNCHANGED <<compactVars, hierVars, strVars, errVars, gridVars, lineVars, numVars, bufVars, textVars, polyVars, outlineVars>>

NextConc ==
    \E t \in Threads :
        StepMake(t) \/ StepEngine(t) \/ StepFromC(t) \/ StepToErr(t)

SpecConc == InitConc /\ [][NextConc]_vars

\* the slice the call of t returned, as it is in the memory now
ReturnedBy(t) == SubSeq(memory[threads[t].out], 1, threads[t].n)

(***************************************************************************)
(* C26: under every interleaving of the steps of concurrent calls, each    *)
(* call returns what it returns when it runs alone on its arguments: the   *)
(* package variable errMap is only read, and a call writes only in the     *)
(* buffer it made itself.                                                  *)
(***************************************************************************)
C26_ConcurrentAsAlone ==
    /\ errTable = errMap
    /\ \A t \in Threads :
          threads[t].pc = "done" =>
              /\ ReturnedBy(t) = GridDisk(threads[t].origin, threads[t].k).out
              /\ threads[t].err = GridDisk(threads[t].origin, threads[t].k).err

\* no two calls have one buffer
BuffersApart ==
    \A t, u \in Threads :
        (t # u /\ threads[t].out # 0) => threads[t].out # threads[u].out

\* C26: two calls on different disks of seven cells have both returned,
\* the second having made its buffer before the first wrote in its own
C26_BothReturned ==
    /\ \A t \in Threads : threads[t].pc = "done"
    /\ threads[1].origin = validCell
    /\ threads[2].origin = CellAtOffset(<<1, 0>>)
    /\ threads[1].k = 1
    /\ threads[2].k = 1
    /\ threads[1].out = 2
    /\ threads[2].out = 1
    /\ Len(ReturnedBy(1)) = 7
    /\ Len(ReturnedBy(2)) = 7
    /\ ReturnedBy(1) # ReturnedBy(2)

\* a call has returned an error while the other call returned cells
ErrorBesideCells ==
    /\ \A t \in Threads : threads[t].pc = "done"
    /\ threads[1].err = "ErrCellInvalid"
    /\ threads[2].err = "nil"
    /\ Len(ReturnedBy(2)) = 7

====
